---- MODULE Spec2Model ----
(***************************************************************************)
(* Session manager github.com/dronm/session with its redis and sqlite3     *)
(* providers.                                                              *)
(*                                                                         *)
(* Strings are sequences of tokens (a token is one character, or a word    *)
(* such as "time_accessed" that no pattern of the program ever splits).    *)
(* The wall clock `now` counts ticks of 1/TicksPerSec second, so that the  *)
(* truncation of time.Time.Unix() and of datetime() is visible.            *)
(*                                                                         *)
(* A call of the application or of a GC goroutine is a sequence of         *)
(* commands: one round trip to redis, one statement of sqlite3, one line   *)
(* written to the io.Writer.  One step of the model issues one command,    *)
(* so that the commands of calls made by different goroutines interleave   *)
(* as the scheduler of Go lets them.                                       *)
(***************************************************************************)
EXTENDS Integers, Sequences, FiniteSets, TLC

VARIABLES
    managers,     \* the Managers NewManager has returned, in order: [provider, SessionsKillTime]
    pders,        \* the provider singletons: "redis", "sqlite3" -> [maxLifeTime, maxIdleTime]
    threads,      \* goroutines of the application: id -> the call in progress, its commands ahead
    sink,         \* the io.Writer given to StartGC, SessionGC, DestroyAllSessions is not nil
    logLev,       \* the LogLevel given with it
    log,          \* the lines written to the io.Writer
    broken,       \* what the backend fails on: redis keys, "exec" for the sqlite3 statements
    provides,     \* the registry of providers: name -> provider
    now,          \* wall clock, ticks
    rdb,          \* redis keyspace: redis key -> [val, exp]
    tbl,          \* sqlite table session_vals: id -> row
    handles,      \* session handles: variable of the caller (slot) -> SessionStore; Dropped -> the
                  \* handle a call is still running on after its variable was reassigned
    gcCancel,     \* Manager.gcCancel: token of the last StartGC, 0 = nil
    cancelled,    \* tokens whose context is cancelled
    loops,        \* GC goroutines: <<token, kind>> -> [pc, wake, sleep, restart, commands ahead]
    gcPhase,      \* history of the calls StopGC, SetMaxIdleTime, StartGC
    hist,         \* history per session id: creation and last use as the caller saw them
    last,         \* the call that has just returned and what it returned
    opsLeft,      \* calls the application may still make
    ticksLeft     \* clock advances still to come

vars == <<managers, pders, threads, sink, logLev, log, broken, provides, now, rdb, tbl, handles,
          gcCancel, cancelled, loops, gcPhase, hist, last, opsLeft, ticksLeft>>

cfgVars == <<provides, managers, pders>>
gcVars == <<gcCancel, cancelled, loops, gcPhase>>
envVars == <<sink, logLev, broken>>

----------------------------------------------------------------------------
(* Bounds of the model. *)

MaxOps == 5
MaxClockOps == 3
MaxTicks == 2
MaxGCOps == 5
MaxStartGC == 2
MaxGCTicks == 2
MaxStartOps == 4
MaxStartTicks == 3
MaxSec == 3
MaxNewOps == 3
MaxLogOps == 4
MaxLogTicks == 1
MaxKillOps == 2
MaxKillTicks == 4
MaxRaceOps == 5
MaxTwoOps == 4
MaxIdOps == 4
MaxSpaceOps == 4
MaxExpOps == 4
MaxExpTicks == 3
MaxShareOps == 6
MaxReadOps == 4
MaxDailyOps == 5
MaxDailyTicks == 2
MaxLogStartGC == 1
MaxReadTicks == 2
TicksPerSec == 2

(* Program constants. *)
SecondsPerDay == 86400
LOG_LEVEL_ERROR == 0
LOG_LEVEL_WARN == 1
LOG_LEVEL_DEBUG == 2
SESS_ID_LEN == 36

NoKill == 0 - 1
NoTime == 0 - 1

----------------------------------------------------------------------------
(* The Manager the application makes its calls on is the first one NewManager
   returned; its provider is one of the two package-level singletons. *)

\* &Manager{provider: provider} and its SessionsKillTime (NoKill: the zero time)
Manager(p, kill) == [provider |-> p, SessionsKillTime |-> kill]

\* var pder = &Provider{} of each provider package; namespace is a field of the
\* redis Provider only, the empty string until InitProvider
Pder(life, idle, namespace) ==
    [maxLifeTime |-> life, maxIdleTime |-> idle, namespace |-> namespace]
NewPders == [p \in {"redis", "sqlite3"} |-> Pder(0, 0, <<>>)]

\* manager.provider: "redis" or "sqlite3", "" while no Manager exists
provider == IF managers = <<>> THEN "" ELSE managers[1].provider
\* manager.SessionsKillTime as second of the day, or NoKill
killTime == IF managers = <<>> THEN NoKill ELSE managers[1].SessionsKillTime
\* pder.maxLifeTime and pder.maxIdleTime of the provider of the Manager, seconds
maxLifeTime == IF provider = "" THEN 0 ELSE pders[provider].maxLifeTime
maxIdleTime == IF provider = "" THEN 0 ELSE pders[provider].maxIdleTime

\* pder.namespace of the redis provider
Namespace == pders["redis"].namespace

\* a program with one Manager, built by NewManager(p, life, idle, kill time, url,
\* namespace); the sqlite3 provider takes no namespace
OneManager(p, life, idle, kill, namespace) ==
    /\ managers = <<Manager(p, kill)>>
    /\ pders = [NewPders EXCEPT
                  ![p] = Pder(life, idle, IF p = "redis" THEN namespace ELSE <<>>)]

----------------------------------------------------------------------------
(* The inputs the caller draws from. *)

\* strings given to InitProvider as the redis namespace: one of plain characters,
\* one with a character class of SCAN MATCH patterns in it
PlainNamespace == <<"ns">>
Namespaces == {PlainNamespace, <<"app", "[", "1", "]">>}
TIME_ACCESSED == <<"time_accessed">>

\* ids genSessionID can return: hex digits and hyphens only
GenIds == {<<"a">>}
\* ids a caller can pass to SessionStart/SessionDestroy: any string
SessionIds == GenIds \cup {<<"[", "a", "]">>}
UserKeys == {<<"k">>, TIME_ACCESSED}
\* every key a caller of some specification below sets
AllKeys == UserKeys \cup {<<"j">>}
Values == {[t |-> "int64", v |-> 1], [t |-> "int", v |-> 2]}
Targets == {"int64", "string"}
Slots == {1}
\* the variables of an application that holds two handles
TwoSlots == {1, 2}
LifeTimes == {0, 1}
IdleTimes == {0, 1}

EmptyMap == [x \in {} |-> 0]


\* the registry once the init() of both provider packages has run
Imported == [n \in {"redis", "sqlite3"} |-> n]
MapPut(m, k, v) == [x \in DOMAIN m \cup {k} |-> IF x = k THEN v ELSE m[x]]
MapDel(m, ks) == [x \in DOMAIN m \ ks |-> m[x]]

Min(S) == CHOOSE x \in S : \A y \in S : x <= y

\* time.Time.Unix(): whole seconds
Unix(t) == t \div TicksPerSec
Seconds(n) == n * TicksPerSec

----------------------------------------------------------------------------
(* encoding/gob as the providers use it. *)

\* the wire type gob sends for a Go type: all signed integers share one
WireType(t) ==
    CASE t \in {"int", "int32", "int64"} -> "int"
      [] t \in {"float32", "float64"} -> "float"
      [] OTHER -> t

\* enc.Encode(val) of setValue: the value by its wire type
gobEncode(val) == [wire |-> WireType(val.t), v |-> val.v]

\* dec.Decode(t) of getValueForKey into a target of Go type `target`
gobDecode(bytes, target) ==
    IF bytes.wire = WireType(target)
    THEN [err |-> "ok", val |-> [t |-> target, v |-> bytes.v]]
    ELSE [err |-> "gob: type mismatch", val |-> [t |-> target, v |-> 0]]

\* getForDb: a map[string]interface{} is sent with each value's concrete type name
getForDb(value) ==
    [null |-> FALSE,
     m |-> [k \in DOMAIN value |-> [name |-> value[k].t, v |-> value[k].v]]]

\* setFromDb: decodes into the (empty) map of a new SessionStore; NULL decodes nothing
setFromDb(dbVal) ==
    IF dbVal.null THEN EmptyMap
    ELSE [k \in DOMAIN dbVal.m |-> [t |-> dbVal.m[k].name, v |-> dbVal.m[k].v]]

SqlNull == [null |-> TRUE, m |-> EmptyMap]

----------------------------------------------------------------------------
(* Redis: key names, SCAN MATCH patterns, the keyspace. *)

getPrefixedKey(sid, key) == Namespace \o <<":">> \o sid \o <<":">> \o key

\* index of the "]" closing a class opened at p[1], 0 if none
ClassEnd(p) ==
    LET c == {i \in 2..Len(p) : p[i] = "]"}
    IN IF c = {} THEN 0 ELSE Min(c)

\* glob match of SCAN ... MATCH: "*", "?", "[set]", "\" escape, literals
RECURSIVE stringmatch(_, _)
stringmatch(p, s) ==
    IF p = <<>> THEN s = <<>>
    ELSE IF Head(p) = "*"
         THEN \E i \in 0..Len(s) : stringmatch(Tail(p), SubSeq(s, i + 1, Len(s)))
    ELSE IF Head(p) = "?"
         THEN s # <<>> /\ stringmatch(Tail(p), Tail(s))
    ELSE IF Head(p) = "[" /\ ClassEnd(p) # 0
         THEN /\ s # <<>>
              /\ Head(s) \in {p[i] : i \in 2..(ClassEnd(p) - 1)}
              /\ stringmatch(SubSeq(p, ClassEnd(p) + 1, Len(p)), Tail(s))
    ELSE IF Head(p) = "\\" /\ Len(p) >= 2
         THEN s # <<>> /\ Head(s) = p[2] /\ stringmatch(Tail(Tail(p)), Tail(s))
    ELSE s # <<>> /\ Head(s) = Head(p) /\ stringmatch(Tail(p), Tail(s))

\* client.Scan(ctx, 0, pattern, 0): the keys of the keyspace the pattern matches
Scan(db, pattern) == {key \in DOMAIN db : stringmatch(pattern, key)}

\* client.Set(key, bytes, maxLifeTime seconds): expiration 0 keeps the key for ever
ClientSet(db, key, bytes, life, t) ==
    MapPut(db, key, [val |-> bytes, exp |-> IF life = 0 THEN 0 ELSE t + Seconds(life)])

\* keys whose time to live has run out are gone
Expire(db, t) == MapDel(db, {key \in DOMAIN db : db[key].exp # 0 /\ db[key].exp <= t})

\* strings.Replace(key, "time_accessed", "*", 1): the first occurrence
ReplaceFirst(key) ==
    LET at == {i \in 1..Len(key) : key[i] = TIME_ACCESSED[1]}
    IN IF at = {} THEN key
       ELSE SubSeq(key, 1, Min(at) - 1) \o <<"*">> \o SubSeq(key, Min(at) + 1, Len(key))

----------------------------------------------------------------------------
(* The redis provider. *)

TimeValue(t) == [t |-> "time.Time", v |-> t]

setValue(db, sid, key, val, life, t) ==
    ClientSet(db, getPrefixedKey(sid, key), gobEncode(val), life, t)

sessionAccessed(db, sid, life, t) ==
    setValue(db, sid, TIME_ACCESSED, TimeValue(t), life, t)

\* client.Get of a missing key fails with redis.Nil; a gob stream is never empty
getValueForKey(db, redisKey, target) ==
    IF redisKey \notin DOMAIN db
    THEN [err |-> "redis: nil", val |-> [t |-> target, v |-> 0]]
    ELSE gobDecode(db[redisKey].val, target)


\* the test of SessionGC on one time_accessed value
IdleExpired(t, idle, tm) == Unix(t) + idle <= Unix(tm)


----------------------------------------------------------------------------
(* The sqlite3 provider: SQL values by storage class, the table session_vals. *)

\* a column default CURRENT_DATETIME is no keyword of SQLite: the text 'CURRENT_DATETIME'
DefaultTime == [cls |-> "text", lead |-> 0, unix |-> NoTime]

\* the year of the proleptic Gregorian calendar in which a Unix time falls (UTC)
YearOf(unix) ==
    LET z == (unix \div SecondsPerDay) + 719468
        era == z \div 146097
        doe == z - era * 146097
        yoe == (doe - (doe \div 1460) + (doe \div 36524) - (doe \div 146096)) \div 365
        doy == doe - (365 * yoe + (yoe \div 4) - (yoe \div 100))
        mp == (5 * doy + 2) \div 153
    IN yoe + era * 400 + (IF mp < 10 THEN 0 ELSE 1)

\* datetime(): the text 'YYYY-MM-DD HH:MM:SS'; lead is its numeric prefix, the year
datetime(t) == [cls |-> "text", lead |-> YearOf(Unix(t)), unix |-> Unix(t)]

\* col + '<n> seconds': both operands are cast to numbers by their numeric prefix
SqlPlusSeconds(col, n) == [cls |-> "integer", lead |-> col.lead + n, unix |-> NoTime]

\* x <= y of two values without affinity: a number sorts before any text
SqlLessEq(x, y) ==
    IF x.cls = "integer" /\ y.cls = "text" THEN TRUE
    ELSE IF x.cls = "text" /\ y.cls = "integer" THEN FALSE
    ELSE IF x.lead # y.lead THEN x.lead < y.lead
    ELSE x.unix <= y.unix

\* the driver's scan of a datetime column into time.Time: the zero time if it does not parse
ScanTime(col) == IF col.unix = NoTime THEN NoTime ELSE Seconds(col.unix)

NewRow == [accessed_time |-> DefaultTime, create_time |-> DefaultTime, val |-> SqlNull]

\* INSERT OR IGNORE INTO session_vals(id)
InsertOrIgnore(t, sid) == IF sid \in DOMAIN t THEN t ELSE MapPut(t, sid, NewRow)

\* DELETE FROM session_vals WHERE <col> + '<n> seconds' <= datetime()
DeleteOlder(t, col, n, tm) ==
    MapDel(t, {sid \in DOMAIN t :
                 SqlLessEq(SqlPlusSeconds(IF col = "accessed_time"
                                          THEN t[sid].accessed_time
                                          ELSE t[sid].create_time, n),
                           datetime(tm))})


removeSessionFromDb(t, sid) == MapDel(t, {sid})

\* SessionStore.Get of the sqlite3 provider: from the map in memory
SqliteGet(value, key, target) ==
    IF key \notin DOMAIN value
    THEN [err |-> "key not found", val |-> [t |-> target, v |-> 0]]
    ELSE IF value[key].t # target
         THEN [err |-> "value type mismatch", val |-> [t |-> target, v |-> 0]]
         ELSE [err |-> "ok", val |-> value[key]]

----------------------------------------------------------------------------
(* Session handles. *)

\* history kept with a handle: `staged` is what the caller Set since the last Flush,
\* `dirty` that Set, Put or Delete was called since the last Flush, `arg` and `via`
\* the argument of the SessionStart that returned it and the Provider call it made,
\* `stale` that the argument was an id with nothing stored, `removed` the keys
\* the handle held that the caller deleted since the last Flush, `setAt` the time of
\* the last Set, `sawCreated` and `sawAccessed` what TimeCreated() and TimeAccessed()
\* last returned to the caller (Unseen: no such call)
Unseen == {}

NoHandle ==
    [open |-> FALSE, sid |-> <<>>, value |-> EmptyMap, valueModified |-> FALSE,
     timeAccessed |-> NoTime, timeCreated |-> NoTime, staged |-> EmptyMap,
     dirty |-> FALSE, arg |-> <<>>, via |-> "", stale |-> FALSE, removed |-> {},
     mx |-> 0, setAt |-> NoTime, sawCreated |-> Unseen, sawAccessed |-> Unseen]

\* sqlite3 NewSessionStore
NewSessionStore(sid, t) ==
    [NoHandle EXCEPT !.open = TRUE, !.sid = sid, !.timeAccessed = t, !.timeCreated = t]

\* redis &SessionStore{sid: sid}
RedisSessionStore(sid) == [NoHandle EXCEPT !.open = TRUE, !.sid = sid]

----------------------------------------------------------------------------
(* What is stored for a session, and what a handle opened now would read. *)

\* the stored user keys of a session, each with its stored bytes
Stored(sid) ==
    IF provider = "redis"
    THEN [k \in {k \in AllKeys : getPrefixedKey(sid, k) \in DOMAIN rdb} |->
            rdb[getPrefixedKey(sid, k)].val]
    ELSE IF sid \in DOMAIN tbl /\ ~tbl[sid].val.null THEN tbl[sid].val.m ELSE EmptyMap

Snapshot == [s \in SessionIds |-> Stored(s)]

\* Get(key, &target) on the handle Manager.SessionStart(sid) would return now
ReadGet(sid, key, target) ==
    IF provider = "redis"
    THEN getValueForKey(rdb, getPrefixedKey(sid, key), target)
    ELSE SqliteGet(IF sid \in DOMAIN tbl THEN setFromDb(tbl[sid].val) ELSE EmptyMap,
                   key, target)

\* some key of the session exists in the backend
HasState(sid) ==
    IF provider = "redis"
    THEN \E key \in DOMAIN rdb :
            LET pre == Namespace \o <<":">> \o sid \o <<":">>
            IN Len(key) > Len(pre) /\ SubSeq(key, 1, Len(pre)) = pre
    ELSE sid \in DOMAIN tbl

\* the record kept of a call: `pre` and `db` are what the call found when it began,
\* `lines` the lines it wrote, `alone` that no other goroutine issued a command
\* while it was in progress
Ret(op, slot, sid, key, r) ==
    [op |-> op, slot |-> slot, sid |-> sid, key |-> key, err |-> r.err, val |-> r.val,
     staged |-> EmptyMap, pre |-> EmptyMap, ctxDone |-> FALSE, calls |-> <<>>,
     lines |-> <<>>, alone |-> TRUE, db |-> EmptyMap, fired |-> NoTime]

Ok == [err |-> "ok", val |-> [t |-> "", v |-> 0]]

\* a call whose result no property below reads
Quiet == [op |-> "-", slot |-> 0, sid |-> <<>>, key |-> <<>>, err |-> "ok",
          val |-> [t |-> "", v |-> 0], staged |-> EmptyMap, pre |-> EmptyMap,
          ctxDone |-> FALSE, calls |-> <<>>, lines |-> <<>>, alone |-> TRUE,
          db |-> EmptyMap, fired |-> NoTime]
Fail(e) == [err |-> e, val |-> [t |-> "", v |-> 0]]

\* history: the caller used the session (any call), accessed it (Flush, Put, Get that found)
Used(sid, accessed) ==
    [hist EXCEPT ![sid].used = now,
                 ![sid].acc = IF accessed THEN now ELSE @]


----------------------------------------------------------------------------
(* SessionStore: the state a call leaves.  Each on a world [h, rdb, tbl]. *)

\* a SessionStart that reads whatever its argument
AlwaysSessionRead(arg) == "SessionRead"

\* Manager.SessionStart: the Provider call it makes; arg <<>> is the empty string
ProviderCall(arg) == IF arg = <<>> THEN "SessionInit" ELSE "SessionRead"

World(slot) == [h |-> handles[slot], rdb |-> rdb, tbl |-> tbl]

\* reflect.DeepEqual(st.value[key], value): an absent key is a nil interface
DeepEqual(value, key, val) == key \in DOMAIN value /\ value[key] = val

StoreSet(w, key, val) ==
    IF provider = "redis"
    THEN [w EXCEPT !.rdb = setValue(w.rdb, w.h.sid, key, val, maxLifeTime, now),
                   !.h.staged = MapPut(@, key, val),
                   !.h.removed = @ \ {key},
                   !.h.dirty = TRUE,
                   !.h.setAt = now]
    ELSE IF ~DeepEqual(w.h.value, key, val)
         THEN [w EXCEPT !.h.value = MapPut(@, key, val),
                        !.h.valueModified = TRUE,
                        !.h.timeAccessed = now,
                        !.h.staged = MapPut(@, key, val),
                        !.h.removed = @ \ {key},
                        !.h.dirty = TRUE,
                        !.h.setAt = now]
         ELSE [w EXCEPT !.h.staged = MapPut(@, key, val), !.h.removed = @ \ {key},
                        !.h.dirty = TRUE, !.h.setAt = now]

\* a Flush that writes whether or not the value was modified
AlwaysFlush(h) == TRUE

\* sqlite3 Flush: if st.valueModified
NeedsFlush(h) == h.valueModified

\* the backend calls a Flush of the handle makes
FlushCalls(h) ==
    IF provider = "redis" THEN <<"SET">>
    ELSE IF NeedsFlush(h) THEN <<"UPDATE">> ELSE <<>>

StoreDelete(w, key) ==
    IF provider = "redis"
    THEN [w EXCEPT !.rdb = sessionAccessed(MapDel(w.rdb, {getPrefixedKey(w.h.sid, key)}),
                                           w.h.sid, maxLifeTime, now),
                   !.h.staged = MapDel(@, {key}),
                   !.h.removed = IF getPrefixedKey(w.h.sid, key) \in DOMAIN w.rdb
                                 THEN @ \cup {key} ELSE @,
                   !.h.dirty = TRUE]
    ELSE IF key \in DOMAIN w.h.value
         THEN [w EXCEPT !.h.value = MapDel(@, {key}),
                        !.h.timeAccessed = now,
                        !.h.staged = MapDel(@, {key}),
                        !.h.removed = @ \cup {key},
                        !.h.dirty = TRUE]
         ELSE [w EXCEPT !.h.staged = MapDel(@, {key}), !.h.dirty = TRUE]

----------------------------------------------------------------------------
(* The registry of providers and NewManager. *)

\* Register without the duplicate check
RegisterOverwrite(reg, name, provide) ==
    IF provide = "nil"
    THEN [panic |-> "session: Register provide is nil", reg |-> reg]
    ELSE [panic |-> "", reg |-> MapPut(reg, name, provide)]

\* Register(name, provide): the panic it raises ("" for none) and the registry after
RegisterOutcome(reg, name, provide) ==
    IF provide = "nil"
    THEN [panic |-> "session: Register provide is nil", reg |-> reg]
    ELSE IF name \in DOMAIN reg
    THEN [panic |-> "session: Register called twice for provide", reg |-> reg]
    ELSE [panic |-> "", reg |-> MapPut(reg, name, provide)]

Register(name, provide) ==
    /\ opsLeft > 0
    /\ provides' = RegisterOutcome(provides, name, provide).reg
    /\ last' = Ret("Register", 0, <<>>, <<>>,
                   IF RegisterOutcome(provides, name, provide).panic = "" THEN Ok
                   ELSE Fail(RegisterOutcome(provides, name, provide).panic))
    /\ opsLeft' = opsLeft - 1
    /\ UNCHANGED <<managers, pders, gcVars, now, rdb, tbl,
                   handles, hist, ticksLeft, envVars, log, threads>>

\* the decimal digits of a time string
DigitVal == [c \in {"0", "1", "2", "3", "4", "5", "6", "7", "8", "9"} |->
                CASE c = "0" -> 0 [] c = "1" -> 1 [] c = "2" -> 2 [] c = "3" -> 3
                  [] c = "4" -> 4 [] c = "5" -> 5 [] c = "6" -> 6 [] c = "7" -> 7
                  [] c = "8" -> 8 [] c = "9" -> 9]

isDigit(str, i) == i <= Len(str) /\ str[i] \in DOMAIN DigitVal

\* time.getnum: one or two leading digits (exactly two when fixed)
getnum(str, fixed) ==
    IF ~isDigit(str, 1) THEN [ok |-> FALSE, n |-> 0, rest |-> str]
    ELSE IF ~isDigit(str, 2)
    THEN IF fixed THEN [ok |-> FALSE, n |-> 0, rest |-> str]
         ELSE [ok |-> TRUE, n |-> DigitVal[str[1]], rest |-> Tail(str)]
    ELSE [ok |-> TRUE, n |-> DigitVal[str[1]] * 10 + DigitVal[str[2]],
          rest |-> Tail(Tail(str))]

\* the literal ":" of a layout
skipColon(str) ==
    IF Len(str) > 0 /\ Head(str) = ":" THEN [ok |-> TRUE, rest |-> Tail(str)]
    ELSE [ok |-> FALSE, rest |-> str]

RECURSIVE skipDigits(_)
skipDigits(str) == IF isDigit(str, 1) THEN skipDigits(Tail(str)) ELSE str

\* a fractional second the layout does not name is still consumed
skipFraction(str) ==
    IF Len(str) >= 2 /\ str[1] \in {".", ","} /\ isDigit(str, 2)
    THEN skipDigits(Tail(str)) ELSE str

ParseFail(e) == [err |-> e, t |-> NoKill]

\* time.Parse of the layouts "15:04" (withSec = FALSE) and "15:04:05": the
\* time of day in seconds
timeParse(withSec, value) ==
    LET h == getnum(value, FALSE)
        c1 == skipColon(h.rest)
        m == getnum(c1.rest, TRUE)
        c2 == skipColon(m.rest)
        sc == getnum(c2.rest, TRUE)
        rest == IF withSec THEN skipFraction(sc.rest) ELSE m.rest
    IN  IF ~h.ok THEN ParseFail("parsing time: cannot parse")
        ELSE IF h.n >= 24 THEN ParseFail("parsing time: hour out of range")
        ELSE IF ~c1.ok \/ ~m.ok THEN ParseFail("parsing time: cannot parse")
        ELSE IF m.n >= 60 THEN ParseFail("parsing time: minute out of range")
        ELSE IF withSec /\ (~c2.ok \/ ~sc.ok) THEN ParseFail("parsing time: cannot parse")
        ELSE IF withSec /\ sc.n >= 60 THEN ParseFail("parsing time: second out of range")
        ELSE IF Len(rest) > 0 THEN ParseFail("parsing time: extra text")
        ELSE [err |-> "ok",
              t |-> h.n * 3600 + m.n * 60 + (IF withSec THEN sc.n ELSE 0)]

\* a parseTime that takes any string for midnight
parseTimeLenient(timeStr) == [err |-> "ok", t |-> 0]

parseTime(timeStr) ==
    IF Len(timeStr) = 8 THEN timeParse(TRUE, timeStr)
    ELSE IF Len(timeStr) = 5 THEN timeParse(FALSE, timeStr)
    ELSE ParseFail("parseTime: unknown layout")

\* InitProvider of the provider p: provParams as the types of the parameters,
\* up: the redis URL parses and the server answers the Ping
InitProvider(p, provParams, up) ==
    IF p = "redis"
    THEN IF Len(provParams) < 2 THEN "InitProvider missing parameters"
         ELSE IF provParams[1] # "string" THEN "InitProvider parameter(0) must be a string"
         ELSE IF provParams[2] # "string" THEN "InitProvider parameter(1) must be a string"
         ELSE IF ~up THEN "redis: connection failed"
         ELSE "ok"
    ELSE IF Len(provParams) < 1 THEN "InitProvider missing parameters"
         ELSE IF provParams[1] # "string" THEN "InitProvider parameter(0) must be a string"
         ELSE "ok"

\* pder.namespace after InitProvider: redis assigns provParams[1].(string), the
\* empty string if it is not a string, once parameter 0 passed its test; a
\* parameter of type string holds the namespace given
InitNamespace(p, provParams, namespace, old) ==
    IF p = "redis" /\ Len(provParams) >= 2 /\ provParams[1] = "string"
    THEN IF provParams[2] = "string" THEN namespace ELSE <<>>
    ELSE old

\* NewManager: the error, the kill time of the Manager it returns and the calls
\* it made, in order
NewManagerOutcome(reg, providerName, sessionsKillTime, provParams, up) ==
    LET setters == <<"SetMaxLifeTime", "SetMaxIdleTime">>
        parsed == IF sessionsKillTime = <<>> THEN [err |-> "ok", t |-> NoKill]
                  ELSE parseTime(sessionsKillTime)
        parsing == IF sessionsKillTime = <<>> THEN <<>> ELSE <<"parseTime">>
        init == InitProvider(reg[providerName], provParams, up)
    IN  IF providerName \notin DOMAIN reg
        THEN [err |-> "session: unknown provider", manager |-> FALSE, kill |-> NoKill,
              calls |-> <<>>]
        ELSE IF parsed.err # "ok"
        THEN [err |-> parsed.err, manager |-> FALSE, kill |-> NoKill,
              calls |-> setters \o parsing]
        ELSE [err |-> init, manager |-> init = "ok", kill |-> parsed.t,
              calls |-> setters \o parsing \o <<"InitProvider">>]

\* NewManager: the setters act on the provider singleton the name is registered
\* for, whatever Manager was built on it before
NewManager(providerName, life, idle, sessionsKillTime, provParams, up) ==
    LET out == NewManagerOutcome(provides, providerName, sessionsKillTime, provParams, up)
        found == providerName \in DOMAIN provides
    IN  /\ opsLeft > 0
        /\ pders' = IF found
                    THEN [pders EXCEPT
                            ![provides[providerName]] =
                               Pder(life, idle,
                                    IF out.calls # <<>> /\ out.calls[Len(out.calls)] = "InitProvider"
                                    THEN InitNamespace(provides[providerName], provParams,
                                                       PlainNamespace, @.namespace)
                                    ELSE @.namespace)]
                    ELSE pders
        /\ managers' = IF out.manager
                       THEN Append(managers, Manager(provides[providerName], out.kill))
                       ELSE managers
        /\ last' = [Ret("NewManager", 0, <<>>, sessionsKillTime,
                        [err |-> out.err,
                         val |-> [t |-> IF out.manager THEN "Manager" ELSE "", v |-> 0]])
                    EXCEPT !.calls = out.calls,
                           !.pre = [provides |-> provides, providerName |-> providerName,
                                    provParams |-> provParams, up |-> up]]
        /\ opsLeft' = opsLeft - 1
        /\ UNCHANGED <<provides, gcVars, now, rdb, tbl, handles, hist, ticksLeft, envVars, log, threads>>

\* Manager.SetSessionsKillTime on the Manager m: the field is assigned before the
\* error is tested, so a string that does not parse leaves it the zero time
SetSessionsKillTime(m, sessionsKillTime) ==
    /\ opsLeft > 0
    /\ m \in DOMAIN managers
    /\ managers' = [managers EXCEPT ![m].SessionsKillTime = parseTime(sessionsKillTime).t]
    /\ last' = Ret("SetSessionsKillTime", m, <<>>, sessionsKillTime,
                   Fail(parseTime(sessionsKillTime).err))
    /\ opsLeft' = opsLeft - 1
    /\ UNCHANGED <<provides, pders, gcVars, now, rdb, tbl, handles, hist, ticksLeft,
                   envVars, log, threads>>

\* Manager.InitProvider on the Manager m: the error of its provider's InitProvider
ManagerInitProvider(m, provParams, up) ==
    /\ opsLeft > 0
    /\ m \in DOMAIN managers
    /\ last' = [Ret("InitProvider", m, <<>>, <<>>,
                    Fail(InitProvider(managers[m].provider, provParams, up)))
                EXCEPT !.pre = [provParams |-> provParams, up |-> up]]
    /\ pders' = [pders EXCEPT
                    ![managers[m].provider].namespace =
                       InitNamespace(managers[m].provider, provParams, PlainNamespace, @)]
    /\ opsLeft' = opsLeft - 1
    /\ UNCHANGED <<provides, managers, gcVars, now, rdb, tbl, handles, hist, ticksLeft,
                   envVars, log, threads>>


----------------------------------------------------------------------------
(* The times of the two goroutines of StartGC. *)

\* second of the day of a time, as Hour()*60*60 + Minute()*60 + Second()
SecOfDay(t) == Unix(t) % SecondsPerDay

\* sleep_sec of the kill-time goroutine
KillSleepSec(kill, t) ==
    LET sleep_sec == kill - SecOfDay(t)
    IN IF sleep_sec < 0 THEN SecondsPerDay + sleep_sec ELSE sleep_sec

\* a scan interval that prefers the idle time whenever it is set
GCSleepIdleFirst(life_time, idle_time) ==
    IF idle_time > 0 THEN idle_time ELSE life_time

\* the kill-time goroutine is started: SessionsKillTime != empty_t
StartsKill(kill) == kill # NoKill

\* an idle/lifetime goroutine started on the idle time alone
StartsGCIfIdle(life_time, idle_time) == idle_time # 0

\* the idle/lifetime goroutine is started: not (life_time == 0 && idle_time == 0)
StartsGC(life_time, idle_time) == ~(life_time = 0 /\ idle_time = 0)

\* sleep_sec of the idle/lifetime goroutine
GCSleepSec(life_time, idle_time) ==
    IF idle_time > 0 /\ life_time = 0 THEN idle_time
    ELSE IF life_time > 0 /\ idle_time = 0 THEN life_time
    ELSE IF idle_time < life_time THEN idle_time
    ELSE life_time

\* a kill-time goroutine that goes on without the settle delay
SettleNow(t) == t

\* time.Sleep(time.Duration(1) * time.Second) after DestroyAllSessions
SettleWake(t) == t + Seconds(1)

\* a timer of the idle/lifetime goroutine that reads the times again
GCNextWakeReload(l) == now + Seconds(IF maxIdleTime # 0 /\ (maxLifeTime = 0 \/ maxIdleTime < maxLifeTime)
                                     THEN maxIdleTime ELSE maxLifeTime)

\* time.After(sleep_sec) of the idle/lifetime goroutine: sleep_sec is the
\* variable StartGC set before it started the goroutine
GCNextWake(l) == now + Seconds(loops[l].sleep)


\* a goroutine; `fired` is history, the time of its last DestroyAllSessions; todo
\* and ret are the commands ahead and the record of the sweep it is in
Loop(pc, wake, sleep, restart) ==
    [pc |-> pc, wake |-> wake, sleep |-> sleep, restart |-> restart, fired |-> NoTime,
     todo |-> <<>>, ret |-> Quiet]

----------------------------------------------------------------------------
(* A call is a sequence of commands: each command is one round trip to the
   backend, one write to the log writer, one statement on the memory of a
   handle that goroutines share, or the statements of the program that end a
   call.  Between two commands of a call the other goroutines run. *)

Cmd == [c |-> "", sid |-> <<>>, key |-> <<>>, keys |-> {}, val |-> [t |-> "", v |-> 0],
        target |-> "", tm |-> 0, level |-> 0, text |-> "", slot |-> 0, arg |-> <<>>,
        flag |-> FALSE, ret |-> FALSE, snap |-> SqlNull, h |-> NoHandle]

\* session.WriteToLog(l, text, level)
LogCmd(level, text) == [Cmd EXCEPT !.c = "WriteToLog", !.level = level, !.text = text]
\* the same under the condition of the caller
WriteToLog(cond, text, level) == IF cond THEN <<LogCmd(level, text)>> ELSE <<>>
\* the lines that commands write
LogLines(cmds) == [i \in DOMAIN cmds |-> [level |-> cmds[i].level, text |-> cmds[i].text]]

\* pder.setValue(sid, key, val); its error is returned to the caller
SetValueCmd(sid, key, val) ==
    [Cmd EXCEPT !.c = "setValue", !.sid = sid, !.key = key, !.val = val, !.ret = TRUE]
\* pder.sessionAccessed(sid); its error is dropped
SessionAccessedCmd(sid) == [Cmd EXCEPT !.c = "sessionAccessed", !.sid = sid]
\* pder.getValueForKey(prefixed key, &target) of getValue
GetValueCmd(sid, key, target, ret) ==
    [Cmd EXCEPT !.c = "getValue", !.sid = sid, !.key = key, !.target = target, !.ret = ret]
\* client.Scan(ctx, 0, pattern, 0) of removeOnPattern
ScanCmd(pattern, ret) == [Cmd EXCEPT !.c = "Scan", !.key = pattern, !.ret = ret]
\* client.Del of the keys a scan returned, one at a time
DelCmd(keys, ret) == [Cmd EXCEPT !.c = "Del", !.keys = keys, !.ret = ret]
\* client.Scan of SessionGC; SessionGC returns before it if maxIdleTime is 0
SessionGCScanCmd == [Cmd EXCEPT !.c = "SessionGC Scan"]
\* the body of SessionGC's loop for the scanned keys, one at a time
SessionGCGetCmd(keys, tm) == [Cmd EXCEPT !.c = "SessionGC Get", !.keys = keys, !.tm = tm]
\* a DELETE FROM session_vals: all rows, the row of an id, the rows a column makes old
SqlDeleteCmd(where, sid, ret) ==
    [Cmd EXCEPT !.c = "DELETE", !.text = where, !.sid = sid, !.ret = ret]
\* Provider.SessionInit(sid) and Provider.SessionRead(sid) for the handle in slot
SessionInitCmd(slot, sid, arg) ==
    [Cmd EXCEPT !.c = "SessionInit", !.slot = slot, !.sid = sid, !.arg = arg, !.ret = TRUE]
SessionReadCmd(slot, sid, arg) ==
    [Cmd EXCEPT !.c = "SessionRead", !.slot = slot, !.sid = sid, !.arg = arg, !.ret = TRUE]
\* StartGC from the statement after the go of the kill-time goroutine
StartGCCmd(tok, restart) == [Cmd EXCEPT !.c = "StartGC", !.slot = tok, !.flag = restart]
\* return of Provider.SessionInit / SessionRead through Manager.SessionStart: the
\* caller stores the Session h in its variable slot
AssignCmd(slot, h) == [Cmd EXCEPT !.c = "Assign", !.slot = slot, !.h = h]
\* sqlite3 Set: if !reflect.DeepEqual(st.value[key], value), without the lock
SetCmd(slot, key, val) == [Cmd EXCEPT !.c = "Set", !.slot = slot, !.key = key, !.val = val]
\* st.mx.Lock() and st.mx.Unlock() of sqlite3 Set, Delete, Flush and the getters
LockCmd(slot) == [Cmd EXCEPT !.c = "Lock", !.slot = slot]
UnlockCmd(slot) == [Cmd EXCEPT !.c = "Unlock", !.slot = slot]
\* sqlite3 Set: st.value[key] = value
StoreCmd(slot, key, val) ==
    [Cmd EXCEPT !.c = "Store", !.slot = slot, !.key = key, !.val = val]
\* sqlite3 Set: st.valueModified = true
MarkCmd(slot) == [Cmd EXCEPT !.c = "Mark", !.slot = slot]
\* sqlite3 Set, Delete and the getters: st.timeAccessed = time.Now()
TouchCmd(slot) == [Cmd EXCEPT !.c = "Touch", !.slot = slot]
\* sqlite3 Delete: _, ok := st.value[key], without the lock
DeleteCmd(slot, key) == [Cmd EXCEPT !.c = "Delete", !.slot = slot, !.key = key]
\* sqlite3 Delete: delete(st.value, key)
RemoveCmd(slot, key) == [Cmd EXCEPT !.c = "Remove", !.slot = slot, !.key = key]
\* sqlite3 Flush: if st.valueModified, without the lock
FlushCmd(slot) == [Cmd EXCEPT !.c = "Flush", !.slot = slot, !.ret = TRUE]
\* sqlite3 Flush: val, err := getForDb(&st.value), without the lock
EncodeCmd(slot) == [Cmd EXCEPT !.c = "Encode", !.slot = slot]
\* sqlite3 Flush: the UPDATE of the bytes val that were encoded before the lock
UpdateCmd(slot, val) ==
    [Cmd EXCEPT !.c = "UPDATE", !.slot = slot, !.snap = val, !.ret = TRUE]
\* sqlite3 Flush: st.valueModified = false
ClearCmd(slot) == [Cmd EXCEPT !.c = "Clear", !.slot = slot]
\* v, ok := st.value[key] of sqlite3 Get and of a getter (touch)
MapReadCmd(slot, key, touch) ==
    [Cmd EXCEPT !.c = "MapRead", !.slot = slot, !.key = key, !.flag = touch]
\* the commands of a call on the memory of a sqlite3 handle
HandleCmds == {"Set", "Lock", "Unlock", "Store", "Mark", "Touch", "Delete", "Remove",
               "Flush", "Encode", "UPDATE", "Clear", "MapRead"}

\* sess_keys of redis DestroyAllSessions
DestroyAllKeys(namespace) == namespace \o <<":", "*">>

\* the pattern of the scan of redis SessionGC
AccessedKeys(namespace) == namespace \o <<":", "*", ":">> \o TIME_ACCESSED

\* a command that the call skips: the tests of SessionGC on the two times
Skipped(cmd) ==
    \/ cmd.c = "SessionGC Scan" /\ maxIdleTime = 0
    \/ cmd.c = "DELETE" /\ cmd.text = "accessed_time" /\ ~(maxIdleTime > 0)
    \/ cmd.c = "DELETE" /\ cmd.text = "create_time" /\ ~(maxLifeTime > 0)

RECURSIVE Trim(_)
Trim(todo) ==
    IF todo = <<>> THEN <<>>
    ELSE IF Skipped(Head(todo)) THEN Trim(Tail(todo)) ELSE todo

\* what a command leaves: the backend, the log, the handles, the goroutines, the
\* commands that take its place in the call, the error it returns to the caller,
\* the variables of the application that were given another handle
W == [rdb |-> rdb, tbl |-> tbl, log |-> log, handles |-> handles, loops |-> loops,
      more |-> <<>>, err |-> "", moved |-> {}]

\* the handles are called by more than one goroutine of the application: every
\* statement of a call on the memory of a handle, and the hand-over of a handle to
\* a variable, is a command of its own.  A goroutine that is alone with the handles
\* runs these statements together with the statement of the backend that follows
\* them: no other goroutine reads or writes that memory
Shared == Cardinality(DOMAIN threads) > 1

\* where the model keeps a handle that a goroutine is still calling after the
\* variable of the application that held it was given another handle
Dropped == Cardinality(TwoSlots) + 1

\* a goroutine is inside a call on the memory of the handle in slot
InUse(slot) ==
    \E th \in DOMAIN threads :
       /\ threads[th].pc = "call"
       /\ \E i \in DOMAIN threads[th].todo :
             threads[th].todo[i].c \in HandleCmds /\ threads[th].todo[i].slot = slot

\* a goroutine is inside an assignment to, or a delete from, st.value of the handle
Racing(slot) ==
    \E th \in DOMAIN threads :
       /\ threads[th].pc = "call"
       /\ threads[th].todo # <<>>
       /\ Head(threads[th].todo).c \in {"Store", "Remove"}
       /\ Head(threads[th].todo).slot = slot

\* an unlocked read of st.value: while another goroutine writes the map the Go
\* runtime either lets the read through or stops the process with "fatal error:
\* concurrent map read and map write"
MapRead(slot, read) ==
    IF Racing(slot) THEN {read, [W EXCEPT !.err = "fatal"]} ELSE {read}

\* the history of a handle after Set(key, val) and after Delete(key)
NotedSet(h, key, val) ==
    [h EXCEPT !.staged = MapPut(@, key, val), !.removed = @ \ {key},
              !.dirty = TRUE, !.setAt = now]
NotedDelete(h, key) ==
    [h EXCEPT !.staged = MapDel(@, {key}),
              !.removed = IF key \in DOMAIN h.value THEN @ \cup {key} ELSE @,
              !.dirty = TRUE]
NotedFlush(h) == [h EXCEPT !.staged = EmptyMap, !.removed = {}, !.dirty = FALSE]

\* sqlite3 Flush: UPDATE session_vals SET val = $1, accessed_time = datetime()
\* WHERE id = $2, with the bytes val and the id of the handle
Update(slot, val) ==
    IF handles[slot].sid \in DOMAIN tbl
    THEN [tbl EXCEPT ![handles[slot].sid].val = val,
                     ![handles[slot].sid].accessed_time = datetime(now)]
    ELSE tbl

\* sqlite3 Flush by a goroutine that is alone with the handle: nothing if the value
\* is not modified; else the UPDATE of the encoded map and, unless its error is
\* returned, st.valueModified = false
StoreFlush(slot) ==
    IF ~NeedsFlush(handles[slot])
    THEN [W EXCEPT !.handles[slot] = NotedFlush(@)]
    ELSE IF "exec" \in broken THEN [W EXCEPT !.err = "Exec failed"]
    ELSE [W EXCEPT !.tbl = Update(slot, getForDb(handles[slot].value)),
                   !.handles[slot] = NotedFlush([@ EXCEPT !.valueModified = FALSE])]

\* the variable slot of the application is given the handle h: a handle that a
\* goroutine is still calling goes on as Dropped
Assign(slot, h) ==
    [handles EXCEPT
       ![slot] = [h EXCEPT !.sawCreated = IF handles[slot].sid = h.sid
                                          THEN handles[slot].sawCreated ELSE Unseen,
                           !.sawAccessed = IF handles[slot].sid = h.sid
                                           THEN handles[slot].sawAccessed ELSE Unseen],
       ![Dropped] = IF InUse(slot) THEN handles[slot] ELSE @]

\* the handle a SessionStart returns
Opened(h, cmd) ==
    [h EXCEPT !.arg = cmd.arg, !.via = ProviderCall(cmd.arg),
              !.stale = cmd.arg # <<>> /\ ~HasState(cmd.arg)]

\* Provider.SessionInit / SessionRead returns the handle h: a goroutine that is
\* alone with the variables of the application stores it at once
Return(w, cmd, h) ==
    IF Shared THEN [w EXCEPT !.more = <<AssignCmd(cmd.slot, Opened(h, cmd))>>]
    ELSE [w EXCEPT !.handles = Assign(cmd.slot, Opened(h, cmd))]

\* the line sqlite3 writes when a DELETE of a sweep fails
SqlFailed(where) ==
    CASE where = "accessed_time" -> "Exec() failed on DELETE ... accessed_time"
      [] where = "create_time" -> "Exec() failed on DELETE ... create_time"
      [] OTHER -> "Exec() failed on DELETE FROM session_vals"

\* StartGC from the reading of the two times on: the line it writes and the
\* idle/lifetime goroutine, waiting in its select, unless both times are 0
StartIdle(tok, restart) ==
    [log |-> log \o LogLines(WriteToLog(StartsGC(maxLifeTime, maxIdleTime)
                                           /\ sink /\ logLev >= LOG_LEVEL_WARN,
                                       "running garbage collector", LOG_LEVEL_DEBUG)),
     loops |-> IF StartsGC(maxLifeTime, maxIdleTime)
               THEN MapPut(loops, <<tok, "idle">>,
                           Loop("select",
                                now + Seconds(GCSleepSec(maxLifeTime, maxIdleTime)),
                                GCSleepSec(maxLifeTime, maxIdleTime), restart))
               ELSE loops]

\* the outcomes of a command issued now
Exec(cmd) ==
    CASE cmd.c = "WriteToLog" ->
           {[W EXCEPT !.log = Append(log, [level |-> cmd.level, text |-> cmd.text])]}
      [] cmd.c = "setValue" ->
           IF getPrefixedKey(cmd.sid, cmd.key) \in broken
           THEN {[W EXCEPT !.err = "SET failed"]}
           ELSE {[W EXCEPT !.rdb = setValue(rdb, cmd.sid, cmd.key, cmd.val, maxLifeTime, now)]}
      [] cmd.c = "sessionAccessed" ->
           IF getPrefixedKey(cmd.sid, TIME_ACCESSED) \in broken THEN {W}
           ELSE {[W EXCEPT !.rdb = sessionAccessed(rdb, cmd.sid, maxLifeTime, now)]}
      [] cmd.c = "getValue" ->
           LET r == IF getPrefixedKey(cmd.sid, cmd.key) \in broken
                    THEN [err |-> "GET failed", val |-> [t |-> cmd.target, v |-> 0]]
                    ELSE getValueForKey(rdb, getPrefixedKey(cmd.sid, cmd.key), cmd.target)
           IN IF r.err = "ok" THEN {[W EXCEPT !.more = <<SessionAccessedCmd(cmd.sid)>>]}
              ELSE {[W EXCEPT !.err = IF cmd.ret THEN r.err ELSE ""]}
      [] cmd.c = "Scan" ->
           {[W EXCEPT !.more = IF Scan(rdb, cmd.key) = {} THEN <<>>
                               ELSE <<DelCmd(Scan(rdb, cmd.key), cmd.ret)>>]}
      [] cmd.c = "Del" ->
           {IF key \in broken
            THEN [W EXCEPT !.err = IF cmd.ret THEN "DEL failed" ELSE ""]
            ELSE [W EXCEPT !.rdb = MapDel(rdb, {key}),
                           !.more = IF cmd.keys = {key} THEN <<>>
                                    ELSE <<DelCmd(cmd.keys \ {key}, cmd.ret)>>] :
              key \in cmd.keys}
      [] cmd.c = "SessionGC Scan" ->
           {[W EXCEPT !.more = IF Scan(rdb, AccessedKeys(Namespace)) = {} THEN <<>>
                               ELSE <<SessionGCGetCmd(Scan(rdb, AccessedKeys(Namespace)),
                                                      now)>>]}
      [] cmd.c = "SessionGC Get" ->
           {LET r == IF key \in broken
                     THEN [err |-> "GET failed", val |-> [t |-> "time.Time", v |-> 0]]
                     ELSE getValueForKey(rdb, key, "time.Time")
                rest == IF cmd.keys = {key} THEN <<>>
                        ELSE <<SessionGCGetCmd(cmd.keys \ {key}, cmd.tm)>>
            IN [W EXCEPT !.more =
                  (IF r.err # "ok"
                   THEN WriteToLog(sink, "pder.getValueForKey() failed", LOG_LEVEL_ERROR)
                   ELSE IF IdleExpired(r.val.v, maxIdleTime, cmd.tm)
                   THEN WriteToLog(sink /\ logLev >= LOG_LEVEL_DEBUG,
                                   "SessionGC(): deleting keys on pattern", LOG_LEVEL_DEBUG)
                        \o <<ScanCmd(ReplaceFirst(key), FALSE)>>
                   ELSE <<>>) \o rest] :
              key \in cmd.keys}
      [] cmd.c = "DELETE" ->
           IF "exec" \in broken
           THEN {[W EXCEPT !.err = IF cmd.ret THEN "Exec failed" ELSE "",
                           !.more = IF cmd.ret THEN <<>>
                                    ELSE WriteToLog(sink, SqlFailed(cmd.text),
                                                    LOG_LEVEL_ERROR)]}
           ELSE {[W EXCEPT !.tbl =
                    CASE cmd.text = "all" -> MapDel(tbl, DOMAIN tbl)
                      [] cmd.text = "id" -> removeSessionFromDb(tbl, cmd.sid)
                      [] cmd.text = "accessed_time" ->
                           DeleteOlder(tbl, "accessed_time", maxIdleTime, now)
                      [] cmd.text = "create_time" ->
                           DeleteOlder(tbl, "create_time", maxLifeTime, now)]}
      [] cmd.c = "SessionInit" ->
           IF Len(cmd.sid) > SESS_ID_LEN
           THEN {[W EXCEPT !.err = "Session key length exceeded max value"]}
           ELSE IF provider = "redis"
           THEN {Return(W, cmd, RedisSessionStore(cmd.sid))}
           ELSE {Return([W EXCEPT !.tbl = InsertOrIgnore(tbl, cmd.sid)], cmd,
                        NewSessionStore(cmd.sid, now))}
      [] cmd.c = "SessionRead" ->
           IF provider = "redis"
           THEN {Return(W, cmd, RedisSessionStore(cmd.sid))}
           ELSE IF cmd.sid \in DOMAIN tbl
           THEN {Return([W EXCEPT !.tbl[cmd.sid].accessed_time = datetime(now)], cmd,
                        [NewSessionStore(cmd.sid, now) EXCEPT
                           !.timeAccessed = ScanTime(datetime(now)),
                           !.timeCreated = ScanTime(tbl[cmd.sid].create_time),
                           !.value = setFromDb(tbl[cmd.sid].val)])}
           ELSE {[W EXCEPT !.more = <<SessionInitCmd(cmd.slot, cmd.sid, cmd.arg)>>]}
      [] cmd.c = "Assign" ->
           {[W EXCEPT !.handles = Assign(cmd.slot, cmd.h),
                      !.moved = IF InUse(cmd.slot) THEN {cmd.slot} ELSE {}]}
      [] cmd.c = "StartGC" ->
           {[W EXCEPT !.log = StartIdle(cmd.slot, cmd.flag).log,
                      !.loops = StartIdle(cmd.slot, cmd.flag).loops]}
      [] cmd.c = "Set" ->
           IF ~Shared
           THEN {[W EXCEPT !.handles[cmd.slot] =
                              StoreSet(World(cmd.slot), cmd.key, cmd.val).h]}
           ELSE MapRead(cmd.slot,
                  [W EXCEPT !.handles[cmd.slot] = NotedSet(@, cmd.key, cmd.val),
                            !.more = IF DeepEqual(handles[cmd.slot].value, cmd.key, cmd.val)
                                     THEN <<>>
                                     ELSE <<LockCmd(cmd.slot),
                                            StoreCmd(cmd.slot, cmd.key, cmd.val),
                                            MarkCmd(cmd.slot),
                                            TouchCmd(cmd.slot),
                                            UnlockCmd(cmd.slot)>>])
      [] cmd.c = "Lock" ->
           IF handles[cmd.slot].mx # 0 THEN {}
           ELSE {[W EXCEPT !.handles[cmd.slot].mx = 1]}
      [] cmd.c = "Unlock" -> {[W EXCEPT !.handles[cmd.slot].mx = 0]}
      [] cmd.c = "Store" ->
           {[W EXCEPT !.handles[cmd.slot].value = MapPut(@, cmd.key, cmd.val)]}
      [] cmd.c = "Mark" ->
           {[W EXCEPT !.handles[cmd.slot] = [@ EXCEPT !.valueModified = TRUE,
                                                      !.dirty = TRUE]]}
      [] cmd.c = "Touch" -> {[W EXCEPT !.handles[cmd.slot].timeAccessed = now]}
      [] cmd.c = "Delete" ->
           IF ~Shared
           THEN {[W EXCEPT !.handles[cmd.slot] = StoreDelete(World(cmd.slot), cmd.key).h]}
           ELSE MapRead(cmd.slot,
                  [W EXCEPT !.handles[cmd.slot] = NotedDelete(@, cmd.key),
                            !.more = IF cmd.key \in DOMAIN handles[cmd.slot].value
                                     THEN <<LockCmd(cmd.slot),
                                            TouchCmd(cmd.slot),
                                            RemoveCmd(cmd.slot, cmd.key),
                                            UnlockCmd(cmd.slot)>>
                                     ELSE <<>>])
      [] cmd.c = "Remove" ->
           {[W EXCEPT !.handles[cmd.slot] = [@ EXCEPT !.value = MapDel(@, {cmd.key}),
                                                      !.dirty = TRUE]]}
      [] cmd.c = "Flush" ->
           IF ~Shared THEN {StoreFlush(cmd.slot)}
           ELSE IF ~NeedsFlush(handles[cmd.slot])
           THEN {[W EXCEPT !.handles[cmd.slot] = NotedFlush(@)]}
           ELSE {[W EXCEPT !.more = <<EncodeCmd(cmd.slot)>>]}
      [] cmd.c = "Encode" ->
           MapRead(cmd.slot,
             [W EXCEPT !.more = <<LockCmd(cmd.slot),
                                  UpdateCmd(cmd.slot, getForDb(handles[cmd.slot].value)),
                                  ClearCmd(cmd.slot),
                                  UnlockCmd(cmd.slot)>>])
      [] cmd.c = "UPDATE" ->
           IF "exec" \in broken THEN {[W EXCEPT !.err = "Exec failed"]}
           ELSE {[W EXCEPT !.tbl = Update(cmd.slot, cmd.snap)]}
      [] cmd.c = "Clear" ->
           {[W EXCEPT !.handles[cmd.slot] = NotedFlush([@ EXCEPT !.valueModified = FALSE])]}
      [] cmd.c = "MapRead" ->
           IF ~Shared
           THEN {[W EXCEPT !.handles[cmd.slot].timeAccessed =
                              IF cmd.flag /\ cmd.key \in DOMAIN handles[cmd.slot].value
                              THEN now ELSE @]}
           ELSE MapRead(cmd.slot,
                  [W EXCEPT !.more =
                      IF cmd.flag /\ cmd.key \in DOMAIN handles[cmd.slot].value
                      THEN <<LockCmd(cmd.slot), TouchCmd(cmd.slot), UnlockCmd(cmd.slot)>>
                      ELSE <<>>])

\* the deferred calls among the commands a call has ahead: they run when the call
\* returns an error
Deferred(todo) == SelectSeq(todo, LAMBDA cmd : cmd.c = "Unlock")

\* one step of a call that has the commands todo ahead: the first command it does
\* not skip is issued; a command whose error is returned ends the call
Step(todo) ==
    IF Trim(todo) = <<>> THEN {W}
    ELSE {[o EXCEPT !.more = IF o.err = "fatal" THEN <<>>
                             ELSE IF o.err # "" THEN Deferred(Tail(Trim(todo)))
                             ELSE Trim(o.more \o Tail(Trim(todo)))] :
            o \in Exec(Head(Trim(todo)))}


----------------------------------------------------------------------------
(* Goroutines of the application and the calls they are in. *)

Threads == {1, 2}
Idle == [op |-> "-", pc |-> "idle", todo |-> <<>>, ret |-> Quiet,
         touch |-> [kind |-> "-", sid |-> <<>>]]
\* a program whose calls are made by one goroutine, and by two
OneThread == [th \in {1} |-> Idle]
NoCalls == [th \in Threads |-> Idle]

\* some goroutine of the application is free to make a call: the first such
Crashed == \E th \in DOMAIN threads : threads[th].pc = "fatal"
Free == ~Crashed /\ \E th \in DOMAIN threads : threads[th].pc = "idle"
Caller == Min({th \in DOMAIN threads : threads[th].pc = "idle"})
\* no call of the application is in progress
NoCall == \A th \in DOMAIN threads : threads[th].pc = "idle"

\* history at the return of a call
Touch(kind, sid) == [kind |-> kind, sid |-> sid]
Touched(touch) ==
    CASE touch.kind = "used" -> Used(touch.sid, FALSE)
      [] touch.kind = "accessed" -> Used(touch.sid, TRUE)
      [] touch.kind = "start" ->
           [hist EXCEPT ![touch.sid].t0 = IF @ = NoTime \/ ~HasState(touch.sid)
                                          THEN now ELSE @,
                        ![touch.sid].used = now]
      [] OTHER -> hist

\* the record of a call after a command: the error the command returns, the lines
\* it wrote
After(ret, o) ==
    [ret EXCEPT !.err = IF o.err # "" THEN o.err ELSE @,
                !.lines = @ \o SubSeq(o.log, Len(log) + 1, Len(o.log))]

\* the calls and the sweeps in progress, but that of `me`, are no longer alone
Others(ts, me) ==
    [t \in DOMAIN ts |-> IF t \notin me /\ ts[t].pc = "call"
                         THEN [ts[t] EXCEPT !.ret.alone = FALSE] ELSE ts[t]]
OtherLoops(ls, me) ==
    [l \in DOMAIN ls |-> IF l \notin me /\ ls[l].pc = "sweep"
                         THEN [ls[l] EXCEPT !.ret.alone = FALSE] ELSE ls[l]]
Nobody == {}

\* the calls in progress on a handle whose variable was given another handle go on
\* with the handle they were made on
Moved(ts, slots) ==
    [t \in DOMAIN ts |->
       [ts[t] EXCEPT !.todo =
          [i \in DOMAIN @ |->
             IF @[i].c \in HandleCmds /\ @[i].slot \in slots
             THEN [@[i] EXCEPT !.slot = Dropped] ELSE @[i]]]]

\* the handles once a call has returned: a handle no variable holds is garbage
Returned(todo, hs) ==
    IF Trim(todo) # <<>> /\ Head(Trim(todo)).c \in HandleCmds
                        /\ Head(Trim(todo)).slot = Dropped
    THEN [hs EXCEPT ![Dropped] = NoHandle] ELSE hs

\* a goroutine of the application makes a call and issues its first command; the
\* call returns at once when no command is left
Begin(o, ret, touch) ==
    /\ Free
    /\ rdb' = o.rdb
    /\ tbl' = o.tbl
    /\ log' = o.log
    /\ loops' = OtherLoops(o.loops, Nobody)
    /\ IF o.err = "fatal"
       THEN /\ threads' = [threads EXCEPT ![Caller].pc = "fatal"]
            /\ last' = Quiet
            /\ hist' = hist
       ELSE IF o.more = <<>>
       THEN /\ threads' = Others(Moved(threads, o.moved), Nobody)
            /\ last' = After(ret, o)
            /\ hist' = Touched(touch)
       ELSE /\ threads' = Others([Moved(threads, o.moved) EXCEPT ![Caller] =
                                    [Idle EXCEPT !.op = ret.op, !.pc = "call",
                                                 !.todo = o.more, !.ret = After(ret, o),
                                                 !.touch = touch]], {Caller})
            /\ last' = Quiet
            /\ hist' = hist

\* a call in progress issues its next command, and returns when none is left
Resume(th) ==
    /\ th \in DOMAIN threads
    /\ ~Crashed
    /\ threads[th].pc = "call"
    /\ \E o \in Step(threads[th].todo) :
          /\ rdb' = o.rdb
          /\ tbl' = o.tbl
          /\ log' = o.log
          /\ loops' = OtherLoops(o.loops, Nobody)
          /\ IF o.err = "fatal"
             THEN /\ threads' = [threads EXCEPT ![th].pc = "fatal"]
                  /\ handles' = o.handles
                  /\ last' = Quiet
                  /\ hist' = hist
             ELSE IF o.more = <<>>
             THEN /\ threads' = Others([Moved(threads, o.moved) EXCEPT ![th] = Idle], {th})
                  /\ handles' = Returned(threads[th].todo, o.handles)
                  /\ last' = After(threads[th].ret, o)
                  /\ hist' = Touched(threads[th].touch)
             ELSE /\ threads' = Others([Moved(threads, o.moved) EXCEPT
                                          ![th].todo = o.more,
                                          ![th].ret = After(@, o)], {th})
                  /\ handles' = o.handles
                  /\ last' = Quiet
                  /\ hist' = hist
    /\ UNCHANGED <<cfgVars, gcCancel, cancelled, gcPhase, now, opsLeft, ticksLeft, envVars>>

----------------------------------------------------------------------------
(* Manager.SessionStart and the calls on a SessionStore. *)

\* Manager.SessionStart(arg): SessionInit of a generated id, or SessionRead of arg
SessionStart(slot, arg) ==
    /\ opsLeft > 0
    /\ \E sid \in (IF arg = <<>> THEN GenIds ELSE {arg}) :
          \E o \in Step(IF ProviderCall(arg) = "SessionInit"
                        THEN <<SessionInitCmd(slot, sid, arg)>>
                        ELSE <<SessionReadCmd(slot, sid, arg)>>) :
             /\ Begin(o, [Ret("SessionStart", slot, sid, arg, Ok) EXCEPT
                            !.pre = [state |-> HasState(sid)]],
                      Touch("start", sid))
             /\ handles' = o.handles
    /\ opsLeft' = opsLeft - 1
    /\ UNCHANGED <<cfgVars, gcCancel, cancelled, gcPhase, now, ticksLeft, envVars>>

\* SessionStore.Get(key, &target) of the handle h: the error and the target after
StoreGet(h, key, target) ==
    IF provider = "redis"
    THEN getValueForKey(rdb, getPrefixedKey(h.sid, key), target)
    ELSE SqliteGet(h.value, key, target)

\* the last call removed the stored state of sid
JustRemoved(sid) ==
    /\ last.op \in {"SessionDestroy", "SessionGC", "DestroyAllSessions"}
    /\ last.pre[sid] # EmptyMap
    /\ ~HasState(sid)

\* the keys a handle holds: of the backend for redis, of the map in memory for sqlite3
Held(h) == IF provider = "redis" THEN Stored(h.sid) ELSE getForDb(h.value).m

\* the other variables of the application that hold an open handle on the session
\* of the handle in slot
Peers(slot) ==
    {b \in DOMAIN handles \ {slot, Dropped} :
        handles[b].open /\ handles[b].sid = handles[slot].sid}

\* what every Get on the handles of Peers(slot) returns
View(slot) ==
    [b \in Peers(slot) |->
       [k \in UserKeys \ {TIME_ACCESSED} |->
          [t \in Targets |-> StoreGet(handles[b], k, t)]]]

\* what a handle opened by SessionStart(sid) would return from every Get
Reads(sid) == [k \in AllKeys |-> [t \in Targets |-> ReadGet(sid, k, t)]]

\* Set: redis sets the key; sqlite3 reads the map of the handle and, if the value
\* differs, takes the lock and changes the map
Set(slot, key, val) ==
    /\ opsLeft > 0
    /\ handles[slot].open
    /\ \E o \in Step(IF provider = "redis"
                      THEN <<SetValueCmd(handles[slot].sid, key, val)>>
                      ELSE <<SetCmd(slot, key, val)>>) :
          /\ Begin(o, [Ret("Set", slot, handles[slot].sid, key, Ok) EXCEPT
                         !.val = val,
                         !.pre = [view |-> View(slot),
                                  justRemoved |-> JustRemoved(handles[slot].sid)]],
                   Touch("used", handles[slot].sid))
          /\ handles' = IF provider = "redis"
                        THEN [o.handles EXCEPT ![slot] = NotedSet(@, key, val)]
                        ELSE o.handles
    /\ opsLeft' = opsLeft - 1
    /\ UNCHANGED <<cfgVars, gcCancel, cancelled, gcPhase, now, ticksLeft, envVars>>

\* what a Flush of the handle in slot finds when it begins
Found(slot) ==
    [stale |-> handles[slot].stale,
     row |-> provider = "sqlite3" => handles[slot].sid \in DOMAIN tbl,
     removed |-> handles[slot].removed,
     stored |-> Stored(handles[slot].sid),
     reads |-> Reads(handles[slot].sid),
     peers |-> Peers(slot),
     justRemoved |-> JustRemoved(handles[slot].sid)]

\* Flush: redis sets the key time_accessed and drops the error; sqlite3 reads
\* st.valueModified and, if it is set, encodes the map, takes the lock and writes
\* the bytes with one UPDATE
Flush(slot) ==
    /\ opsLeft > 0
    /\ handles[slot].open
    /\ \E o \in Step(IF provider = "redis"
                      THEN <<SessionAccessedCmd(handles[slot].sid)>>
                      ELSE <<FlushCmd(slot)>>) :
          /\ Begin(o, [Ret("Flush", slot, handles[slot].sid, <<>>, Ok) EXCEPT
                         !.staged = handles[slot].staged,
                         !.calls = FlushCalls(handles[slot]),
                         !.pre = Found(slot)],
                   Touch("accessed", handles[slot].sid))
          /\ handles' = IF provider = "redis"
                        THEN [o.handles EXCEPT ![slot] = NotedFlush(@)]
                        ELSE o.handles
    /\ opsLeft' = opsLeft - 1
    /\ UNCHANGED <<cfgVars, gcCancel, cancelled, gcPhase, now, ticksLeft, envVars>>

\* Put: redis sets the key and then, by Flush, the key time_accessed; sqlite3 is
\* Set and then Flush of the handle
Put(slot, key, val) ==
    /\ opsLeft > 0
    /\ handles[slot].open
    /\ \E o \in Step(IF provider = "redis"
                      THEN <<SetValueCmd(handles[slot].sid, key, val),
                             SessionAccessedCmd(handles[slot].sid)>>
                      ELSE <<SetCmd(slot, key, val), FlushCmd(slot)>>) :
          /\ Begin(o, [Ret("Put", slot, handles[slot].sid, key, Ok) EXCEPT
                         !.val = val,
                         !.staged = MapPut(handles[slot].staged, key, val),
                         !.pre = [justRemoved |-> JustRemoved(handles[slot].sid)]],
                   Touch("accessed", handles[slot].sid))
          /\ handles' = IF provider = "redis"
                        THEN [o.handles EXCEPT ![slot] = NotedFlush(NotedSet(@, key, val))]
                        ELSE o.handles
    /\ opsLeft' = opsLeft - 1
    /\ UNCHANGED <<cfgVars, gcCancel, cancelled, gcPhase, now, ticksLeft, envVars>>

\* Get: redis reads the key and then, if the read succeeded, sets the key
\* time_accessed; sqlite3 reads the map of the handle
Get(slot, key, target) ==
    /\ opsLeft > 0
    /\ handles[slot].open
    /\ \E o \in Step(IF provider = "redis"
                      THEN <<GetValueCmd(handles[slot].sid, key, target, TRUE)>>
                      ELSE <<MapReadCmd(slot, key, FALSE)>>) :
          /\ Begin(o, [Ret("Get", slot, handles[slot].sid, key, Ok) EXCEPT
                         !.err = StoreGet(handles[slot], key, target).err,
                         !.val = StoreGet(handles[slot], key, target).val,
                         !.pre = [justRemoved |-> JustRemoved(handles[slot].sid)]],
                   Touch(IF StoreGet(handles[slot], key, target).err = "ok"
                         THEN "accessed" ELSE "used", handles[slot].sid))
          /\ handles' = o.handles
    /\ opsLeft' = opsLeft - 1
    /\ UNCHANGED <<cfgVars, gcCancel, cancelled, gcPhase, now, ticksLeft, envVars>>

\* the zero value of a Go type: 0, "", false, and the zero time
Zero(target) == IF target = "time.Time" THEN NoTime ELSE 0

\* the Go types a getter of the sqlite3 handle accepts for the type it returns
Accepted(target) ==
    CASE target = "int64" -> {"int64", "int"}
      [] target = "float64" -> {"float64", "float32"}
      [] target = "string" -> {"string", "[]byte"}
      [] OTHER -> {target}

\* sqlite3 GetBool, GetString, GetInt, GetFloat, GetDate: the value of the map in
\* memory if it has an accepted type, the zero value otherwise
SqliteGetter(value, key, target) ==
    IF key \notin DOMAIN value THEN Zero(target)
    ELSE IF value[key].t \in Accepted(target) THEN value[key].v
    ELSE Zero(target)

\* a getter that returns a value and no error: redis as Get into a variable of the
\* type; sqlite3 reads the map and, when the map has the key, takes the lock and
\* sets st.timeAccessed
Getter(op, slot, key, target) ==
    /\ opsLeft > 0
    /\ handles[slot].open
    /\ \E o \in Step(IF provider = "redis"
                      THEN <<GetValueCmd(handles[slot].sid, key, target, FALSE)>>
                      ELSE <<MapReadCmd(slot, key, TRUE)>>) :
        /\ handles' = o.handles
        /\ Begin(o, [Ret(op, slot, handles[slot].sid, key, Ok) EXCEPT
                      !.pre = StoreGet(handles[slot], key, target),
                      !.val = [t |-> target,
                               v |-> IF provider = "sqlite3"
                                     THEN SqliteGetter(handles[slot].value, key, target)
                                     ELSE IF StoreGet(handles[slot], key, target).err = "ok"
                                     THEN StoreGet(handles[slot], key, target).val.v
                                     ELSE Zero(target)]],
                Touch(IF StoreGet(handles[slot], key, target).err = "ok"
                      THEN "accessed" ELSE "used", handles[slot].sid))
    /\ opsLeft' = opsLeft - 1
    /\ UNCHANGED <<cfgVars, gcCancel, cancelled, gcPhase, now, ticksLeft, envVars>>

GetBool(slot, key) == Getter("GetBool", slot, key, "bool")
GetString(slot, key) == Getter("GetString", slot, key, "string")
GetInt(slot, key) == Getter("GetInt", slot, key, "int64")
GetFloat(slot, key) == Getter("GetFloat", slot, key, "float64")
GetDate(slot, key) == Getter("GetDate", slot, key, "time.Time")

\* SessionStore.TimeAccessed() and TimeCreated(): redis calls GetDate of the keys
\* time_accessed and time_created; sqlite3 returns the fields of the handle
TimeRead(slot, key) ==
    IF provider = "redis"
    THEN IF StoreGet(handles[slot], key, "time.Time").err = "ok"
         THEN StoreGet(handles[slot], key, "time.Time").val.v
         ELSE Zero("time.Time")
    ELSE IF key = TIME_ACCESSED THEN handles[slot].timeAccessed
         ELSE handles[slot].timeCreated

TimeOf(op, slot, key) ==
    /\ opsLeft > 0
    /\ handles[slot].open
    /\ \E o \in (IF provider = "redis"
                 THEN Step(<<GetValueCmd(handles[slot].sid, key, "time.Time", FALSE)>>)
                 ELSE {W}) :
          Begin(o, [Ret(op, slot, handles[slot].sid, key, Ok) EXCEPT
                      !.val = [t |-> "time.Time", v |-> TimeRead(slot, key)],
                      !.pre = [saw |-> IF key = TIME_ACCESSED
                                       THEN handles[slot].sawAccessed
                                       ELSE handles[slot].sawCreated,
                               state |-> HasState(handles[slot].sid)]],
                Touch(IF provider = "redis"
                         /\ StoreGet(handles[slot], key, "time.Time").err = "ok"
                      THEN "accessed" ELSE "used", handles[slot].sid))
    /\ handles' = IF key = TIME_ACCESSED
                  THEN [handles EXCEPT ![slot].sawAccessed = {TimeRead(slot, key)}]
                  ELSE [handles EXCEPT ![slot].sawCreated = {TimeRead(slot, key)}]
    /\ opsLeft' = opsLeft - 1
    /\ UNCHANGED <<cfgVars, gcCancel, cancelled, gcPhase, now, ticksLeft, envVars>>

TIME_CREATED == <<"time_created">>
TimeAccessed(slot) == TimeOf("TimeAccessed", slot, TIME_ACCESSED)
TimeCreated(slot) == TimeOf("TimeCreated", slot, TIME_CREATED)

\* Delete: redis deletes the key, drops the error, and sets the key time_accessed;
\* sqlite3 reads the map of the handle and, if it has the key, takes the lock and
\* deletes the key from the map
Delete(slot, key) ==
    /\ opsLeft > 0
    /\ handles[slot].open
    /\ \E o \in Step(IF provider = "redis"
                      THEN <<DelCmd({getPrefixedKey(handles[slot].sid, key)}, FALSE),
                             SessionAccessedCmd(handles[slot].sid)>>
                      ELSE <<DeleteCmd(slot, key)>>) :
          /\ Begin(o, [Ret("Delete", slot, handles[slot].sid, key, Ok) EXCEPT
                         !.pre = [stored |-> key \in DOMAIN Stored(handles[slot].sid),
                                  held |-> key \in DOMAIN Held(handles[slot]),
                                  justRemoved |-> JustRemoved(handles[slot].sid)]],
                   Touch("used", handles[slot].sid))
          /\ handles' = IF provider = "redis"
                        THEN [o.handles EXCEPT ![slot] = StoreDelete(World(slot), key).h]
                        ELSE o.handles
    /\ opsLeft' = opsLeft - 1
    /\ UNCHANGED <<cfgVars, gcCancel, cancelled, gcPhase, now, ticksLeft, envVars>>

----------------------------------------------------------------------------
(* Manager: SessionDestroy, SessionGC, DestroyAllSessions. *)

\* Provider.SessionDestroy(sid): removeSession of redis, removeSessionFromDb of sqlite3
SessionDestroyCmds(sid) ==
    IF provider = "redis" THEN <<ScanCmd(getPrefixedKey(sid, <<"*">>), TRUE)>>
    ELSE <<SqlDeleteCmd("id", sid, TRUE)>>

\* Provider.SessionGC(l, logLev): redis scans the keys time_accessed unless
\* maxIdleTime is 0; sqlite3 deletes by accessed_time if maxIdleTime > 0 and then by
\* create_time if maxLifeTime > 0
SessionGCCmds ==
    IF provider = "redis" THEN <<SessionGCScanCmd>>
    ELSE <<SqlDeleteCmd("accessed_time", <<>>, FALSE), SqlDeleteCmd("create_time", <<>>, FALSE)>>

\* Provider.DestroyAllSessions(l, logLev)
DestroyAllSessionsCmds ==
    IF provider = "redis"
    THEN WriteToLog(sink /\ logLev >= LOG_LEVEL_DEBUG,
                    "DestroyAllSessions(): deleting keys on pattern", LOG_LEVEL_DEBUG)
         \o <<ScanCmd(DestroyAllKeys(Namespace), FALSE)>>
    ELSE <<SqlDeleteCmd("all", <<>>, FALSE)>>

\* what a sweep found when it began
Sweep(op, slot, sid) == [Ret(op, slot, sid, <<>>, Ok) EXCEPT !.pre = Snapshot, !.db = rdb]

\* Manager.SessionDestroy(sid) with a non-empty sid
SessionDestroy(sid) ==
    /\ opsLeft > 0
    /\ \E o \in Step(SessionDestroyCmds(sid)) :
          /\ Begin(o, Sweep("SessionDestroy", 0, sid), Touch("-", sid))
          /\ handles' = o.handles
    /\ opsLeft' = opsLeft - 1
    /\ UNCHANGED <<cfgVars, gcCancel, cancelled, gcPhase, now, ticksLeft, envVars>>

\* Manager.SessionGC called by the application
SessionGC ==
    /\ opsLeft > 0
    /\ \E o \in Step(SessionGCCmds) :
          /\ Begin(o, Sweep("SessionGC", 0, <<>>), Touch("-", <<>>))
          /\ handles' = o.handles
    /\ opsLeft' = opsLeft - 1
    /\ UNCHANGED <<cfgVars, gcCancel, cancelled, gcPhase, now, ticksLeft, envVars>>

\* Manager.DestroyAllSessions called by the application
DestroyAllSessions ==
    /\ opsLeft > 0
    /\ \E o \in Step(DestroyAllSessionsCmds) :
          /\ Begin(o, Sweep("DestroyAllSessions", 0, <<>>), Touch("-", <<>>))
          /\ handles' = o.handles
    /\ opsLeft' = opsLeft - 1
    /\ UNCHANGED <<cfgVars, gcCancel, cancelled, gcPhase, now, ticksLeft, envVars>>

----------------------------------------------------------------------------
(* Manager: the setters, StartGC and its two goroutines, StopGC. *)

SetMaxIdleTime(n) ==
    /\ opsLeft > 0
    /\ Free
    /\ provider # ""
    /\ pders' = [pders EXCEPT ![provider].maxIdleTime = n]
    /\ gcPhase' = IF gcPhase = "stopped" THEN "stopped, idle time set" ELSE gcPhase
    /\ last' = Quiet
    /\ opsLeft' = opsLeft - 1
    /\ UNCHANGED <<provides, managers, gcCancel, cancelled, loops,
                   now, rdb, tbl, handles, hist, ticksLeft, envVars, log, threads>>

SetMaxLifeTime(n) ==
    /\ opsLeft > 0
    /\ Free
    /\ provider # ""
    /\ pders' = [pders EXCEPT ![provider].maxLifeTime = n]
    /\ last' = Quiet
    /\ opsLeft' = opsLeft - 1
    /\ UNCHANGED <<provides, managers, gcVars, now, rdb, tbl,
                   handles, hist, ticksLeft, envVars, log, threads>>

\* this StartGC follows a StopGC and a SetMaxIdleTime
Restart == gcPhase = "stopped, idle time set"

\* StartGC: a fresh context and, if a kill time is set, the kill-time goroutine; the
\* goroutine runs from then on, while StartGC goes on to read the two times
StartGC ==
    /\ opsLeft > 0
    /\ gcCancel < MaxStartGC
    /\ gcCancel' = gcCancel + 1
    /\ \E o \in (IF StartsKill(killTime)
                 THEN {[W EXCEPT !.loops = MapPut(loops, <<gcCancel + 1, "kill">>,
                                                  Loop("compute", now, 0, Restart)),
                                 !.more = <<StartGCCmd(gcCancel + 1, Restart)>>]}
                 ELSE Step(<<StartGCCmd(gcCancel + 1, Restart)>>)) :
          Begin(o, [Quiet EXCEPT !.op = "StartGC", !.slot = gcCancel + 1,
                                 !.pre = [l \in DOMAIN loops |-> TRUE]],
                Touch("-", <<>>))
    /\ gcPhase' = "started"
    /\ opsLeft' = opsLeft - 1
    /\ UNCHANGED <<cfgVars, cancelled, now, handles, ticksLeft, envVars>>

\* StopGC: cancels the context of the last StartGC, if any
StopGC ==
    /\ opsLeft > 0
    /\ Free
    /\ cancelled' = IF gcCancel # 0 THEN cancelled \cup {gcCancel} ELSE cancelled
    /\ gcPhase' = "stopped"
    /\ last' = Quiet
    /\ opsLeft' = opsLeft - 1
    /\ UNCHANGED <<cfgVars, gcCancel, loops, now, rdb, tbl, handles, hist, ticksLeft, envVars, log, threads>>

At(tok, kind, pc) ==
    ~Crashed /\ <<tok, kind>> \in DOMAIN loops /\ loops[<<tok, kind>>].pc = pc

Goto(tok, kind, pc, wake) ==
    loops' = [loops EXCEPT ![<<tok, kind>>].pc = pc, ![<<tok, kind>>].wake = wake]

\* kill-time goroutine, top of the loop: sleep_sec from the clock, the line it
\* writes, then the select
KillCompute(tok) ==
    /\ At(tok, "kill", "compute")
    /\ Goto(tok, "kill", "select", now + Seconds(KillSleepSec(killTime, now)))
    /\ log' = log \o LogLines(WriteToLog(sink /\ logLev >= LOG_LEVEL_WARN,
                                          "waiting session killer", LOG_LEVEL_WARN))
    /\ last' = Quiet
    /\ UNCHANGED <<cfgVars, gcCancel, cancelled, gcPhase, now, rdb, tbl, handles,
                   hist, opsLeft, ticksLeft, envVars, threads>>

\* kill-time goroutine, select: case <-ctx.Done()
KillSelectDone(tok) ==
    /\ At(tok, "kill", "select")
    /\ tok \in cancelled
    /\ Goto(tok, "kill", "done", now)
    /\ last' = Quiet
    /\ UNCHANGED <<cfgVars, gcCancel, cancelled, gcPhase, now, rdb, tbl, handles,
                   hist, opsLeft, ticksLeft, envVars, log, threads>>

\* a goroutine issues a command of its sweep; when none is left the kill-time
\* goroutine sleeps its second and the idle/lifetime goroutine sets its next timer
Swept(l, o, ret) ==
    /\ rdb' = o.rdb
    /\ tbl' = o.tbl
    /\ log' = o.log
    /\ handles' = o.handles
    /\ threads' = Others(threads, Nobody)
    /\ IF o.more = <<>>
       THEN /\ loops' = OtherLoops([loops EXCEPT
                           ![l].pc = IF l[2] = "kill" THEN "settle" ELSE "select",
                           ![l].wake = IF l[2] = "kill" THEN SettleWake(now) ELSE GCNextWake(l),
                           ![l].fired = IF l[2] = "kill" THEN now ELSE @,
                           ![l].todo = <<>>,
                           ![l].ret = Quiet], {l})
            /\ last' = After(ret, o)
       ELSE /\ loops' = OtherLoops([loops EXCEPT ![l].pc = "sweep",
                                                 ![l].todo = o.more,
                                                 ![l].ret = After(ret, o)], {l})
            /\ last' = Quiet

\* kill-time goroutine, select: case <-time.After(sleep_sec): the line it writes
\* and DestroyAllSessions, then time.Sleep of one second
KillSelectTimeout(tok) ==
    /\ At(tok, "kill", "select")
    /\ now >= loops[<<tok, "kill">>].wake
    /\ \E o \in Step(WriteToLog(sink /\ logLev >= LOG_LEVEL_DEBUG,
                                "calling manager.DestroyAllSessions()", LOG_LEVEL_DEBUG)
                     \o DestroyAllSessionsCmds) :
          Swept(<<tok, "kill">>, o,
                [Sweep("KillSelectTimeout", tok, <<>>) EXCEPT
                   !.ctxDone = tok \in cancelled,
                   !.fired = loops[<<tok, "kill">>].fired])
    /\ UNCHANGED <<cfgVars, gcCancel, cancelled, gcPhase, now, hist,
                   opsLeft, ticksLeft, envVars>>

\* kill-time goroutine inside DestroyAllSessions
KillResume(tok) ==
    /\ At(tok, "kill", "sweep")
    /\ \E o \in Step(loops[<<tok, "kill">>].todo) :
          Swept(<<tok, "kill">>, o, loops[<<tok, "kill">>].ret)
    /\ UNCHANGED <<cfgVars, gcCancel, cancelled, gcPhase, now, hist,
                   opsLeft, ticksLeft, envVars>>

\* kill-time goroutine: the one second is over, back to the top of the loop
KillSettle(tok) ==
    /\ At(tok, "kill", "settle")
    /\ now >= loops[<<tok, "kill">>].wake
    /\ Goto(tok, "kill", "compute", now)
    /\ last' = Quiet
    /\ UNCHANGED <<cfgVars, gcCancel, cancelled, gcPhase, now, rdb, tbl, handles,
                   hist, opsLeft, ticksLeft, envVars, log, threads>>

\* idle/lifetime goroutine, select: case <-ctx.Done()
GCSelectDone(tok) ==
    /\ At(tok, "idle", "select")
    /\ tok \in cancelled
    /\ Goto(tok, "idle", "done", now)
    /\ last' = Quiet
    /\ UNCHANGED <<cfgVars, gcCancel, cancelled, gcPhase, now, rdb, tbl, handles,
                   hist, opsLeft, ticksLeft, envVars, log, threads>>

\* idle/lifetime goroutine, select: case <-time.After(sleep_sec): the line it writes
\* and SessionGC, then the select again with a new timer
GCSelectTimeout(tok) ==
    /\ At(tok, "idle", "select")
    /\ now >= loops[<<tok, "idle">>].wake
    /\ \E o \in Step(WriteToLog(sink /\ logLev >= LOG_LEVEL_DEBUG,
                                "calling manager.SessionGC()", LOG_LEVEL_DEBUG)
                     \o SessionGCCmds) :
          Swept(<<tok, "idle">>, o,
                [Sweep("GCSelectTimeout", tok, <<>>) EXCEPT
                   !.ctxDone = tok \in cancelled])
    /\ UNCHANGED <<cfgVars, gcCancel, cancelled, gcPhase, now, hist,
                   opsLeft, ticksLeft, envVars>>

\* idle/lifetime goroutine inside SessionGC
GCResume(tok) ==
    /\ At(tok, "idle", "sweep")
    /\ \E o \in Step(loops[<<tok, "idle">>].todo) :
          Swept(<<tok, "idle">>, o, loops[<<tok, "idle">>].ret)
    /\ UNCHANGED <<cfgVars, gcCancel, cancelled, gcPhase, now, hist,
                   opsLeft, ticksLeft, envVars>>

\* goroutines that have not returned
Active(kind) == {l \in DOMAIN loops : l[2] = kind /\ loops[l].pc # "done"}

\* a goroutine has a step to take at this instant
Due(l) ==
    \/ loops[l].pc \in {"compute", "sweep"}
    \/ loops[l].pc = "select" /\ (l[1] \in cancelled \/ now >= loops[l].wake)
    \/ loops[l].pc = "settle" /\ now >= loops[l].wake

\* a goroutine has a step to take that neither reads nor writes what a call of the
\* application reads or writes: it is taken before the application's next step.  The
\* top of the kill-time loop is such a step only when it writes no line
Silent(l) ==
    \/ loops[l].pc = "compute" /\ ~(sink /\ logLev >= LOG_LEVEL_WARN)
    \/ loops[l].pc = "settle" /\ now >= loops[l].wake
    \/ loops[l].pc = "select" /\ l[1] \in cancelled /\ now < loops[l].wake

Calm == \A l \in DOMAIN loops : ~Silent(l)

\* the times at which a timer of a goroutine runs out
Wakes == {loops[l].wake : l \in {x \in DOMAIN loops : loops[x].pc \in {"select", "settle"}}}

----------------------------------------------------------------------------
(* The clock. *)

\* time passes by d ticks, once the goroutines have taken the steps that are due
\* and no further than their next timer; redis drops the keys whose time to live
\* has run out.  A call and a sweep are short against a tick: the clock stands
\* while one is in progress
Tick(d) ==
    /\ ticksLeft > 0
    /\ NoCall
    /\ \A l \in DOMAIN loops : ~Due(l)
    /\ \A w \in Wakes : now + d <= w
    /\ now' = now + d
    /\ rdb' = Expire(rdb, now')
    /\ last' = Quiet
    /\ ticksLeft' = ticksLeft - 1
    /\ UNCHANGED <<cfgVars, gcVars, tbl, handles, hist, opsLeft, envVars, log, threads>>

----------------------------------------------------------------------------
(* The application's calls on a Manager built by NewManager, no GC started. *)

Init ==
    /\ \E p \in {"redis", "sqlite3"}, life \in LifeTimes, idle \in IdleTimes, kill \in {NoKill} :
          OneManager(p, life, idle, kill, PlainNamespace)
    /\ threads = OneThread
    /\ sink = FALSE
    /\ logLev = LOG_LEVEL_ERROR
    /\ log = <<>>
    /\ broken = {}
    /\ provides = Imported
    /\ now = 0
    /\ rdb = EmptyMap
    /\ tbl = EmptyMap
    /\ handles = [s \in Slots \cup {Dropped} |-> NoHandle]
    /\ gcCancel = 0
    /\ cancelled = {}
    /\ loops = EmptyMap
    /\ gcPhase = "new"
    /\ hist = [s \in SessionIds |-> [t0 |-> NoTime, used |-> NoTime, acc |-> NoTime]]
    /\ last = Quiet
    /\ opsLeft = MaxOps
    /\ ticksLeft = 0

Next ==
    \/ \E slot \in Slots, arg \in SessionIds \cup {<<>>} : SessionStart(slot, arg)
    \/ \E slot \in Slots, key \in UserKeys, val \in Values : Set(slot, key, val)
    \/ \E slot \in Slots, key \in UserKeys, val \in Values : Put(slot, key, val)
    \/ \E slot \in Slots : Flush(slot)
    \/ \E slot \in Slots, key \in UserKeys, target \in Targets : Get(slot, key, target)
    \/ \E slot \in Slots, key \in UserKeys : GetInt(slot, key)
    \/ \E slot \in Slots, key \in UserKeys : Delete(slot, key)
    \/ \E sid \in SessionIds : SessionDestroy(sid)
    \/ SessionGC
    \/ DestroyAllSessions
    \/ \E th \in Threads : Resume(th)

Spec == Init /\ [][Next]_vars

----------------------------------------------------------------------------
(* The same calls while time passes. *)

InitClock ==
    /\ \E p \in {"redis", "sqlite3"}, life \in LifeTimes, idle \in IdleTimes, kill \in {NoKill} :
          OneManager(p, life, idle, kill, PlainNamespace)
    /\ threads = OneThread
    /\ sink = FALSE
    /\ logLev = LOG_LEVEL_ERROR
    /\ log = <<>>
    /\ broken = {}
    /\ provides = Imported
    /\ now = 0
    /\ rdb = EmptyMap
    /\ tbl = EmptyMap
    /\ handles = [s \in Slots \cup {Dropped} |-> NoHandle]
    /\ gcCancel = 0
    /\ cancelled = {}
    /\ loops = EmptyMap
    /\ gcPhase = "new"
    /\ hist = [s \in SessionIds |-> [t0 |-> NoTime, used |-> NoTime, acc |-> NoTime]]
    /\ last = Quiet
    /\ opsLeft = MaxClockOps
    /\ ticksLeft = MaxTicks

NextClock ==
    \/ Next
    \/ \E d \in 1..(TicksPerSec + 1) : Tick(d)

SpecClock == InitClock /\ [][NextClock]_vars

----------------------------------------------------------------------------
(* The getters of a handle and its two timestamps, while time passes. *)

ReadKeys == {<<"k">>}
ReadValues == {[t |-> "int", v |-> 2], [t |-> "float32", v |-> 3],
               [t |-> "string", v |-> 4]}

InitRead ==
    /\ \E p \in {"redis", "sqlite3"}, life \in {0}, idle \in {0}, kill \in {NoKill} :
          OneManager(p, life, idle, kill, PlainNamespace)
    /\ threads = OneThread
    /\ sink = FALSE
    /\ logLev = LOG_LEVEL_ERROR
    /\ log = <<>>
    /\ broken = {}
    /\ provides = Imported
    /\ now = 0
    /\ rdb = EmptyMap
    /\ tbl = EmptyMap
    /\ handles = [s \in Slots \cup {Dropped} |-> NoHandle]
    /\ gcCancel = 0
    /\ cancelled = {}
    /\ loops = EmptyMap
    /\ gcPhase = "new"
    /\ hist = [s \in SessionIds |-> [t0 |-> NoTime, used |-> NoTime, acc |-> NoTime]]
    /\ last = Quiet
    /\ opsLeft = MaxReadOps
    /\ ticksLeft = MaxReadTicks

NextRead ==
    \/ \E slot \in Slots, arg \in GenIds \cup {<<>>} : SessionStart(slot, arg)
    \/ \E slot \in Slots, key \in ReadKeys, val \in ReadValues : Set(slot, key, val)
    \/ \E slot \in Slots, key \in ReadKeys, val \in ReadValues : Put(slot, key, val)
    \/ \E slot \in Slots : Flush(slot)
    \/ \E slot \in Slots, key \in ReadKeys, target \in Targets : Get(slot, key, target)
    \/ \E slot \in Slots, key \in ReadKeys : GetBool(slot, key)
    \/ \E slot \in Slots, key \in ReadKeys : GetString(slot, key)
    \/ \E slot \in Slots, key \in ReadKeys : GetInt(slot, key)
    \/ \E slot \in Slots, key \in ReadKeys : GetFloat(slot, key)
    \/ \E slot \in Slots, key \in ReadKeys : GetDate(slot, key)
    \/ \E slot \in Slots : TimeAccessed(slot)
    \/ \E slot \in Slots : TimeCreated(slot)
    \/ \E slot \in Slots, key \in ReadKeys : Delete(slot, key)
    \/ \E th \in Threads : Resume(th)
    \/ \E d \in 1..TicksPerSec : Tick(d)

SpecRead == InitRead /\ [][NextRead]_vars

----------------------------------------------------------------------------
(* A Manager with the GC started, stopped and restarted while sessions are used. *)

KillTimes == {NoKill, 1}
NewIdleTimes == {2}
NewLifeTimes == {1}
GCIds == {<<>>, <<"[", "a", "]">>}
Tokens == 1..MaxStartGC
GCKey == <<"k">>
GCValue == [t |-> "int64", v |-> 1]

InitGC ==
    /\ \E p \in {"redis", "sqlite3"}, life \in {0}, idle \in IdleTimes, kill \in KillTimes :
          OneManager(p, life, idle, kill, PlainNamespace)
    /\ threads = OneThread
    /\ sink = FALSE
    /\ logLev = LOG_LEVEL_ERROR
    /\ log = <<>>
    /\ broken = {}
    /\ provides = Imported
    /\ now = 0
    /\ rdb = EmptyMap
    /\ tbl = EmptyMap
    /\ handles = [s \in Slots \cup {Dropped} |-> NoHandle]
    /\ gcCancel = 0
    /\ cancelled = {}
    /\ loops = EmptyMap
    /\ gcPhase = "new"
    /\ hist = [s \in SessionIds |-> [t0 |-> NoTime, used |-> NoTime, acc |-> NoTime]]
    /\ last = Quiet
    /\ opsLeft = MaxGCOps
    /\ ticksLeft = MaxGCTicks

\* the steps by which time passes: up to the next timer, or a part of a second
\* when no timer runs
TickSteps ==
    LET ahead == {w - now : w \in {x \in Wakes : x > now}}
    IN IF ahead = {} THEN {1} ELSE ahead

\* the application writes with Set alone here: redis holds no key time_accessed and
\* sqlite3 sweeps by the idle time alone, so that every SessionGC of the idle/lifetime
\* goroutine is one command; SpecLog has the sweeps of several commands
NextGC ==
    \/ Calm /\ \E slot \in Slots, arg \in GCIds : SessionStart(slot, arg)
    \/ Calm /\ \E slot \in Slots : Set(slot, GCKey, GCValue)
    \/ Calm /\ \E n \in NewIdleTimes : SetMaxIdleTime(n)
    \/ Calm /\ StartGC
    \/ Calm /\ StopGC
    \/ Calm /\ \E th \in Threads : Resume(th)
    \/ \E tok \in Tokens : KillCompute(tok)
    \/ \E tok \in Tokens : KillSelectDone(tok)
    \/ \E tok \in Tokens : KillSelectTimeout(tok)
    \/ \E tok \in Tokens : KillResume(tok)
    \/ \E tok \in Tokens : KillSettle(tok)
    \/ \E tok \in Tokens : GCSelectDone(tok)
    \/ \E tok \in Tokens : GCSelectTimeout(tok)
    \/ \E d \in TickSteps : Tick(d)

SpecGC == InitGC /\ [][NextGC]_vars

----------------------------------------------------------------------------
(* The kill-time goroutine while sessions are written and read. *)

InitDaily ==
    /\ \E p \in {"redis", "sqlite3"}, life \in {0}, idle \in {0}, kill \in {1},
          namespace \in Namespaces :
          OneManager(p, life, idle, kill, namespace)
    /\ threads = OneThread
    /\ sink = FALSE
    /\ logLev = LOG_LEVEL_ERROR
    /\ log = <<>>
    /\ broken = {}
    /\ provides = Imported
    /\ now = 0
    /\ rdb = EmptyMap
    /\ tbl = EmptyMap
    /\ handles = [s \in Slots \cup {Dropped} |-> NoHandle]
    /\ gcCancel = 0
    /\ cancelled = {}
    /\ loops = EmptyMap
    /\ gcPhase = "new"
    /\ hist = [s \in SessionIds |-> [t0 |-> NoTime, used |-> NoTime, acc |-> NoTime]]
    /\ last = Quiet
    /\ opsLeft = MaxDailyOps
    /\ ticksLeft = MaxDailyTicks

NextDaily ==
    \/ Calm /\ \E slot \in Slots, arg \in GCIds : SessionStart(slot, arg)
    \/ Calm /\ \E slot \in Slots : Put(slot, GCKey, GCValue)
    \/ Calm /\ \E slot \in Slots : Get(slot, GCKey, GCValue.t)
    \/ Calm /\ \E slot \in Slots : Delete(slot, GCKey)
    \/ Calm /\ gcCancel = 0 /\ StartGC
    \/ Calm /\ StopGC
    \/ Calm /\ \E th \in Threads : Resume(th)
    \/ \E tok \in Tokens : KillCompute(tok)
    \/ \E tok \in Tokens : KillSelectDone(tok)
    \/ \E tok \in Tokens : KillSelectTimeout(tok)
    \/ \E tok \in Tokens : KillResume(tok)
    \/ \E tok \in Tokens : KillSettle(tok)
    \/ \E d \in TickSteps : Tick(d)

SpecDaily == InitDaily /\ [][NextDaily]_vars

----------------------------------------------------------------------------
(* StartGC and StopGC on a Manager of any lifetime, idle time and kill time. *)

StartTimes == 0..MaxSec

InitStart ==
    /\ \E p \in {"redis", "sqlite3"}, life \in StartTimes, idle \in StartTimes, kill \in KillTimes :
          OneManager(p, life, idle, kill, PlainNamespace)
    /\ threads = OneThread
    /\ sink = FALSE
    /\ logLev = LOG_LEVEL_ERROR
    /\ log = <<>>
    /\ broken = {}
    /\ provides = Imported
    /\ now = 0
    /\ rdb = EmptyMap
    /\ tbl = EmptyMap
    /\ handles = [s \in Slots \cup {Dropped} |-> NoHandle]
    /\ gcCancel = 0
    /\ cancelled = {}
    /\ loops = EmptyMap
    /\ gcPhase = "new"
    /\ hist = [s \in SessionIds |-> [t0 |-> NoTime, used |-> NoTime, acc |-> NoTime]]
    /\ last = Quiet
    /\ opsLeft = MaxStartOps
    /\ ticksLeft = MaxStartTicks

NextStart ==
    \/ Calm /\ StartGC
    \/ Calm /\ StopGC
    \/ Calm /\ \E n \in NewIdleTimes : SetMaxIdleTime(n)
    \/ Calm /\ \E n \in NewLifeTimes : SetMaxLifeTime(n)
    \/ Calm /\ \E th \in Threads : Resume(th)
    \/ \E tok \in Tokens : KillCompute(tok)
    \/ \E tok \in Tokens : KillSelectDone(tok)
    \/ \E tok \in Tokens : KillSelectTimeout(tok)
    \/ \E tok \in Tokens : KillSettle(tok)
    \/ \E tok \in Tokens : GCSelectDone(tok)
    \/ \E tok \in Tokens : GCSelectTimeout(tok)
    \/ \E tok \in Tokens : GCResume(tok)
    \/ \E d \in TickSteps : Tick(d)

SpecStart == InitStart /\ [][NextStart]_vars

----------------------------------------------------------------------------
(* The sweeps with a writer for their log and a backend that can fail. *)

LogLevels == {LOG_LEVEL_ERROR, LOG_LEVEL_WARN, LOG_LEVEL_DEBUG}

\* what can fail: one key of the redis keyspace, the statements of sqlite3
Failures ==
    IF provider = "redis" THEN {{key} : key \in DOMAIN rdb} ELSE {{"exec"}}

\* the backend starts to fail
Break(bad) ==
    /\ opsLeft > 0
    /\ NoCall
    /\ broken = {}
    /\ broken' = bad
    /\ last' = Quiet
    /\ opsLeft' = opsLeft - 1
    /\ UNCHANGED <<cfgVars, gcVars, sink, logLev, log, now, rdb, tbl, handles, hist,
                   ticksLeft, threads>>

InitLog ==
    /\ \E p \in {"redis", "sqlite3"}, life \in {0}, idle \in {1}, kill \in KillTimes :
          OneManager(p, life, idle, kill, PlainNamespace)
    /\ threads = OneThread
    /\ sink \in BOOLEAN
    /\ logLev \in IF sink THEN LogLevels ELSE {LOG_LEVEL_DEBUG}
    /\ log = <<>>
    /\ broken = {}
    /\ provides = Imported
    /\ now = 0
    /\ rdb = EmptyMap
    /\ tbl = EmptyMap
    /\ handles = [s \in Slots \cup {Dropped} |-> NoHandle]
    /\ gcCancel = 0
    /\ cancelled = {}
    /\ loops = EmptyMap
    /\ gcPhase = "new"
    /\ hist = [s \in SessionIds |-> [t0 |-> NoTime, used |-> NoTime, acc |-> NoTime]]
    /\ last = Quiet
    /\ opsLeft = MaxLogOps
    /\ ticksLeft = MaxLogTicks

\* the one tick of this specification ends before the second a kill-time goroutine
\* sleeps after its call is over: SpecKill and SpecDaily have its next rounds
NextLog ==
    \/ Calm /\ broken = {} /\ \E slot \in Slots, arg \in GCIds : SessionStart(slot, arg)
    \/ Calm /\ broken = {} /\ \E slot \in Slots : Put(slot, GCKey, GCValue)
    \/ Calm /\ \E bad \in Failures : Break(bad)
    \/ Calm /\ SessionGC
    \/ Calm /\ DestroyAllSessions
    \/ Calm /\ gcCancel < MaxLogStartGC /\ StartGC
    \/ Calm /\ StopGC
    \/ Calm /\ \E th \in Threads : Resume(th)
    \/ \E tok \in Tokens : KillCompute(tok)
    \/ \E tok \in Tokens : KillSelectDone(tok)
    \/ \E tok \in Tokens : KillSelectTimeout(tok)
    \/ \E tok \in Tokens : KillResume(tok)
    \/ \E tok \in Tokens : GCSelectDone(tok)
    \/ \E tok \in Tokens : GCSelectTimeout(tok)
    \/ \E tok \in Tokens : GCResume(tok)
    \/ \E d \in TickSteps : Tick(d)

SpecLog == InitLog /\ [][NextLog]_vars

----------------------------------------------------------------------------
(* The kill-time goroutine alone, started at any time of the day. *)

DayTimes == {0, 1, 2, SecondsPerDay - 1}
KillStarts == {Seconds(t) + half : t \in DayTimes, half \in {0, 1}}

InitKill ==
    /\ \E p \in {"redis", "sqlite3"}, life \in {0}, idle \in {0}, kill \in DayTimes :
          OneManager(p, life, idle, kill, PlainNamespace)
    /\ threads = OneThread
    /\ sink = FALSE
    /\ logLev = LOG_LEVEL_ERROR
    /\ log = <<>>
    /\ broken = {}
    /\ provides = Imported
    /\ now \in KillStarts
    /\ rdb = EmptyMap
    /\ tbl = EmptyMap
    /\ handles = [s \in Slots \cup {Dropped} |-> NoHandle]
    /\ gcCancel = 0
    /\ cancelled = {}
    /\ loops = EmptyMap
    /\ gcPhase = "new"
    /\ hist = [s \in SessionIds |-> [t0 |-> NoTime, used |-> NoTime, acc |-> NoTime]]
    /\ last = Quiet
    /\ opsLeft = MaxKillOps
    /\ ticksLeft = MaxKillTicks

NextKill ==
    \/ Calm /\ StartGC
    \/ Calm /\ StopGC
    \/ Calm /\ \E th \in Threads : Resume(th)
    \/ \E tok \in Tokens : KillCompute(tok)
    \/ \E tok \in Tokens : KillSelectDone(tok)
    \/ \E tok \in Tokens : KillSelectTimeout(tok)
    \/ \E tok \in Tokens : KillSettle(tok)
    \/ \E d \in TickSteps : Tick(d)

SpecKill == InitKill /\ [][NextKill]_vars

----------------------------------------------------------------------------
(* Program start: the registry fills and managers are built. *)

ProviderNames == {"redis", "sqlite3"}
Provides == {"nil", "redis", "sqlite3"}
KillStrings ==
    {<<>>,
     <<"0", "0", ":", "0", "0">>,
     <<"0", "0", ":", "0", "1">>,
     <<"2", "4", ":", "0", "0">>,
     <<"1", ":", "2", "3", "4">>,
     <<"0", ":", "0", "1">>,
     <<"0", "0", ":", "0", "0", ":", "0", "1">>,
     <<"0", "0", ":", "0", "0", ":", "6", "0">>,
     <<"0", ":", "0", "0", ":", "1", ".", "5">>}
ProvParams == {<<>>, <<"string">>, <<"string", "string">>, <<"int", "string">>}

InitNew ==
    /\ managers = <<>>
    /\ pders = NewPders
    /\ threads = OneThread
    /\ sink = FALSE
    /\ logLev = LOG_LEVEL_ERROR
    /\ log = <<>>
    /\ broken = {}
    /\ provides = EmptyMap
    /\ now = 0
    /\ rdb = EmptyMap
    /\ tbl = EmptyMap
    /\ handles = [s \in Slots \cup {Dropped} |-> NoHandle]
    /\ gcCancel = 0
    /\ cancelled = {}
    /\ loops = EmptyMap
    /\ gcPhase = "new"
    /\ hist = [s \in SessionIds |-> [t0 |-> NoTime, used |-> NoTime, acc |-> NoTime]]
    /\ last = Quiet
    /\ opsLeft = MaxNewOps
    /\ ticksLeft = 0

NextNew ==
    \/ \E name \in ProviderNames, provide \in Provides : Register(name, provide)
    \/ \E name \in ProviderNames, life \in LifeTimes, idle \in IdleTimes,
          kts \in KillStrings, params \in ProvParams, up \in BOOLEAN :
            NewManager(name, life, idle, kts, params, up)
    \/ \E m \in 1..MaxNewOps, kts \in KillStrings : SetSessionsKillTime(m, kts)
    \/ \E m \in 1..MaxNewOps, params \in ProvParams, up \in BOOLEAN :
            ManagerInitProvider(m, params, up)

SpecNew == InitNew /\ [][NextNew]_vars


----------------------------------------------------------------------------
(* Properties of the application's calls. *)

\* no Get of the key on a handle opened now succeeds
Unreadable(sid, key) == \A target \in Targets \cup {"time.Time"} : ReadGet(sid, key, target).err # "ok"

\* C1: round trip. Right after a successful Flush (or Put) on a handle, every key
\* Set on that handle since its previous Flush reads back, through a handle opened
\* by SessionStart(id), as the value that was Set.
C1_RoundTrip ==
    (last.op \in {"Flush", "Put"} /\ last.err = "ok") =>
        \A k \in DOMAIN last.staged :
            LET r == ReadGet(last.sid, k, last.staged[k].t)
            IN r.err = "ok" /\ r.val = last.staged[k]

\* C2: destroy completeness. Right after SessionDestroy(id) returned, no key that
\* was stored for id can be read through a handle opened by SessionStart(id).
C2_DestroyCompleteness ==
    last.op = "SessionDestroy" =>
        \A k \in DOMAIN last.pre[last.sid] : Unreadable(last.sid, k)

\* C3: idle expiry. With maxIdleTime = T > 0, right after a SessionGC no key can
\* be read of any session that was not read or written for more than T seconds.
C3_IdleExpiry ==
    (last.op = "SessionGC" /\ maxIdleTime > 0) =>
        \A sid \in SessionIds :
            (hist[sid].used # NoTime /\ now - hist[sid].used > Seconds(maxIdleTime)) =>
                \A k \in UserKeys : Unreadable(sid, k)

\* C4: idle survival. With only the idle policy set, a SessionGC that runs less
\* than maxIdleTime seconds after a session's last access (Flush, Put, or a Get
\* that found its key) leaves every stored key of the session as it was.
C4_IdleSurvival ==
    (last.op = "SessionGC" /\ maxIdleTime > 0 /\ maxLifeTime = 0) =>
        \A sid \in SessionIds :
            (hist[sid].acc # NoTime /\ now - hist[sid].acc < Seconds(maxIdleTime)) =>
                Stored(sid) = last.pre[sid]

\* C5: lifetime expiry. With maxLifeTime = T > 0, once T seconds have passed since
\* a session was created at t0 (and, for the scanning backend, SessionGC has just
\* run), no key of the session can be read, whenever before t0 + T the session
\* was last written or read.
C5_LifetimeExpiry ==
    \A sid \in SessionIds :
        ( /\ maxLifeTime > 0
          /\ hist[sid].t0 # NoTime
          /\ now >= hist[sid].t0 + Seconds(maxLifeTime)
          /\ hist[sid].used < hist[sid].t0 + Seconds(maxLifeTime)
          /\ (provider = "sqlite3" => last.op = "SessionGC") ) =>
            \A k \in UserKeys : Unreadable(sid, k)

\* C7: right after DestroyAllSessions returned, no key of any session id can be
\* read through a handle opened by SessionStart(id).
C7_DestroyAllSessions ==
    last.op = "DestroyAllSessions" =>
        \A sid \in SessionIds : \A k \in UserKeys : Unreadable(sid, k)

----------------------------------------------------------------------------
(* Properties of the GC goroutines. *)

\* goroutines of a kind that have not returned and whose context is not cancelled
Live(kind) == {l \in Active(kind) : l[1] \notin cancelled}

\* C6: daily kill. A kill-time goroutine that waits has its timer set to the next
\* instant whose second of the day is killTime, less than a day ahead; when the
\* timer runs out it calls DestroyAllSessions in that second, and right after a
\* call during which the application made no call of its own, no key of any
\* session id can be read.
C6_DailyKill ==
    /\ \A l \in Live("kill") :
          loops[l].pc = "select" =>
              /\ SecOfDay(loops[l].wake) = killTime
              /\ loops[l].wake - now < Seconds(SecondsPerDay)
    /\ last.op = "KillSelectTimeout" =>
          /\ SecOfDay(now) = killTime
          /\ last.alone => \A sid \in SessionIds : \A k \in UserKeys : Unreadable(sid, k)

\* C8: restart. When the idle/lifetime goroutine of a StartGC that followed StopGC
\* and SetMaxIdleTime(T') fires, its interval is the one derived from T', and no
\* key can be read of a session that was not read or written for more than T'.
C8_Restart ==
    ( /\ last.op = "GCSelectTimeout"
      /\ loops[<<last.slot, "idle">>].restart
      /\ maxIdleTime > 0 ) =>
        /\ loops[<<last.slot, "idle">>].sleep = GCSleepSec(maxLifeTime, maxIdleTime)
        /\ \A sid \in SessionIds :
              (hist[sid].used # NoTime /\ now - hist[sid].used > Seconds(maxIdleTime)) =>
                  \A k \in UserKeys : Unreadable(sid, k)

\* C9: StopGC. No goroutine begins a SessionGC or a DestroyAllSessions call once
\* the StopGC that cancels its context has returned.
C9_StopGC ==
    last.op \in {"KillSelectTimeout", "GCSelectTimeout"} => ~last.ctxDone

\* C10: a second StartGC supersedes the first. Of each kind, at most one goroutine
\* is running whose context is not cancelled, and after StopGC there is none.
C10_Supersede ==
    /\ Cardinality(Live("kill")) <= 1
    /\ Cardinality(Live("idle")) <= 1
    /\ gcPhase = "stopped" => Live("kill") \cup Live("idle") = {}

----------------------------------------------------------------------------
(* Properties of StartGC. *)

\* C11: loop start conditions. A StartGC starts a kill-time goroutine exactly when
\* a kill time is set and an idle/lifetime goroutine exactly when maxIdleTime or
\* maxLifeTime is not 0, each whatever the other; it starts nothing else, and
\* while no goroutine was started the scheduler makes no call.
C11_LoopStart ==
    /\ loops = EmptyMap => last.op \notin {"KillSelectTimeout", "GCSelectTimeout"}
    /\ last.op = "StartGC" =>
            LET tok == last.slot
                started == DOMAIN loops \ DOMAIN last.pre
            IN /\ <<tok, "kill">> \in started <=> killTime # NoKill
               /\ <<tok, "idle">> \in started <=> (maxIdleTime # 0 \/ maxLifeTime # 0)
               /\ started \subseteq {<<tok, "kill">>, <<tok, "idle">>}

\* a StartGC with a kill time and no idle or life time has started the kill-time
\* goroutine alone, and one with a life time alone the idle/lifetime goroutine alone
C11_Witness ==
    /\ last.op = "StartGC"
    /\ gcCancel = 1
    /\ \/ /\ killTime # NoKill /\ maxIdleTime = 0 /\ maxLifeTime = 0
          /\ DOMAIN loops = {<<1, "kill">>}
       \/ /\ killTime = NoKill /\ maxIdleTime = 0 /\ maxLifeTime > 0
          /\ DOMAIN loops = {<<1, "idle">>}

\* the smaller of the two times that are not 0
MinNonzero(a, b) == IF a = 0 THEN b ELSE IF b = 0 THEN a ELSE IF a < b THEN a ELSE b

\* C12: scan interval. The idle/lifetime goroutine a StartGC starts has as its
\* interval the smaller nonzero one of maxIdleTime and maxLifeTime, which is more
\* than 0; its first SessionGC is due one interval after the StartGC and each
\* SessionGC happens when due and sets the next one interval later.
C12_ScanInterval ==
    [][\A tok \in Tokens :
         LET l == <<tok, "idle">>
         IN /\ (l \notin DOMAIN loops /\ l \in DOMAIN loops') =>
                  /\ loops'[l].sleep = MinNonzero(maxIdleTime, maxLifeTime)
                  /\ loops'[l].sleep > 0
                  /\ loops'[l].wake = now + Seconds(loops'[l].sleep)
            /\ (l \in DOMAIN loops /\ last'.op = "GCSelectTimeout" /\ last'.slot = tok
                    /\ loops'[l] # loops[l]) =>
                  /\ now = loops[l].wake
                  /\ loops'[l].sleep = loops[l].sleep
                  /\ loops'[l].wake = now + Seconds(loops[l].sleep)]_vars

\* a goroutine started with both times set, the idle time the smaller, has fired
C12_Witness ==
    /\ last.op = "GCSelectTimeout"
    /\ maxIdleTime > 0
    /\ maxLifeTime > maxIdleTime
    /\ loops[<<last.slot, "idle">>].sleep = maxIdleTime

----------------------------------------------------------------------------
(* Properties of SessionStart and of the handles it returns. *)

\* C13: SessionStart dispatch. A handle returned by SessionStart("") came from
\* Provider.SessionInit with a generated id; a handle returned by SessionStart(id),
\* id not empty, came from Provider.SessionRead and its SessionID() is id.
C13_Dispatch ==
    \A slot \in Slots :
        handles[slot].open =>
            /\ handles[slot].arg = <<>> =>
                  handles[slot].via = "SessionInit" /\ handles[slot].sid \in GenIds
            /\ handles[slot].arg # <<>> =>
                  handles[slot].via = "SessionRead" /\ handles[slot].sid = handles[slot].arg

\* SessionStart("") has returned a handle after SessionStart(id) had created a
\* session in the sqlite3 backend
C13_Witness ==
    \E slot \in Slots :
        /\ handles[slot].open
        /\ handles[slot].arg = <<>>
        /\ handles[slot].via = "SessionInit"
        /\ provider = "sqlite3"
        /\ \E sid \in SessionIds \ GenIds : sid \in DOMAIN tbl

\* C16: dirty tracking. A Flush on a sqlite3 handle on which Set, Put and Delete
\* were not called since its last Flush, or since it was opened, makes no backend
\* call and returns success.
C16_DirtyTracking ==
    [][\A slot \in Slots :
         (provider = "sqlite3" /\ handles[slot].open /\ ~handles[slot].dirty
             /\ last'.op = "Flush" /\ last'.slot = slot /\ opsLeft' = opsLeft - 1) =>
            /\ last'.calls = <<>>
            /\ last'.err = "ok"
            /\ tbl' = tbl]_vars

\* a second Flush in a row on a sqlite3 handle whose first Flush wrote a key
C16_Witness ==
    /\ provider = "sqlite3"
    /\ last.op = "Flush"
    /\ last.calls = <<>>
    /\ handles[last.slot].open
    /\ handles[last.slot].value # EmptyMap
    /\ Stored(last.sid) = getForDb(handles[last.slot].value).m

----------------------------------------------------------------------------
\* a string of the form HH:MM or HH:MM:SS naming a time of day
TwoDigits(str, i) ==
    IF isDigit(str, i) /\ isDigit(str, i + 1)
    THEN DigitVal[str[i]] * 10 + DigitVal[str[i + 1]] ELSE 0 - 1

MatchesLayout(str) ==
    \/ /\ Len(str) = 5
       /\ TwoDigits(str, 1) \in 0..23 /\ str[3] = ":" /\ TwoDigits(str, 4) \in 0..59
    \/ /\ Len(str) = 8
       /\ TwoDigits(str, 1) \in 0..23 /\ str[3] = ":" /\ TwoDigits(str, 4) \in 0..59
       /\ str[6] = ":" /\ TwoDigits(str, 7) \in 0..59

Called(call, calls) == \E i \in 1..Len(calls) : calls[i] = call

\* C14: NewManager returns an error and no Manager when the provider name is
\* not registered or when a non-empty kill time matches neither HH:MM nor
\* HH:MM:SS, and InitProvider is not called in either case; InitProvider is
\* called only after the kill time was parsed, it is the last call, and its
\* error is the error of NewManager.
C14_NewManager ==
    last.op = "NewManager" =>
        LET name == last.pre.providerName
            reg == last.pre.provides
            kts == last.key
        IN  /\ name \notin DOMAIN reg =>
                  /\ last.err = "session: unknown provider"
                  /\ last.val.t = ""
                  /\ ~Called("InitProvider", last.calls)
            /\ (name \in DOMAIN reg /\ kts # <<>> /\ ~MatchesLayout(kts)) =>
                  /\ last.err \notin {"ok", "session: unknown provider"}
                  /\ last.val.t = ""
                  /\ ~Called("InitProvider", last.calls)
            /\ Called("InitProvider", last.calls) =>
                  /\ last.calls[Len(last.calls)] = "InitProvider"
                  /\ kts # <<>> => last.calls[Len(last.calls) - 1] = "parseTime"
                  /\ last.err = InitProvider(reg[name], last.pre.provParams, last.pre.up)
                  /\ last.val.t = "Manager" <=> last.err = "ok"
                  /\ last.err = "ok" /\ kts # <<>> =>
                        managers[Len(managers)].SessionsKillTime # NoKill
            /\ (name \in DOMAIN reg /\ (kts = <<>> \/ MatchesLayout(kts))) =>
                  Called("InitProvider", last.calls)

\* NewManager has refused a kill time of the wrong form on a registered provider
C14_Witness ==
    /\ last.op = "NewManager"
    /\ provider # ""
    /\ last.key # <<>> /\ ~MatchesLayout(last.key)
    /\ last.err # "ok"
    /\ last.calls = <<"SetMaxLifeTime", "SetMaxIdleTime", "parseTime">>

\* C15: a registered name keeps the provider of its first successful Register
\* for ever; Register of a registered name or of a nil provider panics and
\* leaves the registry as it was, any other Register adds the name.
C15_WriteOnce ==
    [][/\ \A n \in DOMAIN provides : n \in DOMAIN provides' /\ provides'[n] = provides[n]
       /\ \A name \in ProviderNames, provide \in Provides :
            Register(name, provide) =>
                IF name \in DOMAIN provides \/ provide = "nil"
                THEN /\ last'.err \in {"session: Register provide is nil",
                                       "session: Register called twice for provide"}
                     /\ provides' = provides
                ELSE /\ last'.err = "ok"
                     /\ provides' = MapPut(provides, name, provide)]_vars

\* a second Register of a name has panicked
C15_Witness ==
    /\ last.op = "Register"
    /\ last.err = "session: Register called twice for provide"
    /\ provides # EmptyMap

----------------------------------------------------------------------------
\* the stored value and the target do not match: by the wire type where only
\* the bytes are kept, by the Go type otherwise
Mismatch(held, target) ==
    IF provider = "redis" THEN held.wire # WireType(target) ELSE held.name # target

\* C17: Get(key, &target) on a handle returns "key not found" when the key is
\* absent and a type mismatch when the target's type does not match the stored
\* value's; the target is then left as it was; a Get that succeeds gives the
\* stored value.
C17_StrictGet ==
    \A slot \in Slots, key \in UserKeys, target \in Targets :
        handles[slot].open =>
            LET h == handles[slot]
                r == StoreGet(h, key, target)
            IN  /\ key \notin DOMAIN Held(h) => r.err = "key not found"
                /\ (key \in DOMAIN Held(h) /\ Mismatch(Held(h)[key], target)) =>
                      r.err \in {"value type mismatch", "gob: type mismatch"}
                /\ r.err # "ok" => r.val = [t |-> target, v |-> 0]
                /\ (key \in DOMAIN Held(h) /\ ~Mismatch(Held(h)[key], target)) =>
                      r.err = "ok" /\ r.val.v = Held(h)[key].v

\* C18: GetBool, GetString, GetInt and GetFloat on a handle return what the
\* strict Get into a bool, string, int64 or float64 gives at that moment with its
\* error discarded: the stored value when that Get succeeds, zero otherwise.
C18_Getters ==
    last.op \in {"GetBool", "GetString", "GetInt", "GetFloat"} =>
        last.val.v = IF last.pre.err = "ok" THEN last.pre.val.v ELSE 0

\* C19: TimeAccessed() called on a handle after a Set on it returns a time that
\* is not earlier than the moment of the handle's last Set.
C19_SetTouches ==
    (last.op = "TimeAccessed" /\ handles[last.slot].setAt # NoTime) =>
        last.val.v >= handles[last.slot].setAt

\* C20: SessionStart of a non-empty id with nothing stored returns a handle
\* for that id on which every Get yields "key not found", and what is Set and
\* flushed on such a handle afterwards, the session not being removed in between,
\* reads back through SessionStart(id).
C20_StaleId ==
    /\ (last.op = "SessionStart" /\ last.key # <<>> /\ ~last.pre.state) =>
          /\ last.err = "ok"
          /\ handles[last.slot].open /\ handles[last.slot].sid = last.key
          /\ \A key \in UserKeys, target \in Targets :
                StoreGet(handles[last.slot], key, target).err = "key not found"
    /\ (last.op = "Flush" /\ last.pre.stale /\ last.pre.row) =>
          \A k \in DOMAIN last.staged :
              /\ ReadGet(last.sid, k, last.staged[k].t).err = "ok"
              /\ ReadGet(last.sid, k, last.staged[k].t).val = last.staged[k]

----------------------------------------------------------------------------
\* the redis sessions a SessionGC that finds the keys of db finds idle: their
\* time_accessed keys
IdleKeys(db) ==
    {key \in Scan(db, AccessedKeys(Namespace)) :
        /\ getValueForKey(db, key, "time.Time").err = "ok"
        /\ IdleExpired(getValueForKey(db, key, "time.Time").val.v, maxIdleTime, now)}

\* the backend fails on something the sweep that has just returned worked on
DestroyFails ==
    IF provider = "redis" THEN broken \cap DOMAIN last.db # {} ELSE "exec" \in broken

GCFails ==
    IF provider = "redis"
    THEN maxIdleTime # 0
         /\ \E key \in IdleKeys(last.db) : Scan(last.db, ReplaceFirst(key)) \cap broken # {}
    ELSE "exec" \in broken /\ (maxIdleTime > 0 \/ maxLifeTime > 0)

\* the sweep that has just returned wrote a line at the level ERROR
ErrorWritten == \E i \in DOMAIN last.lines : last.lines[i].level = LOG_LEVEL_ERROR

\* C21: when the backend fails on a key or a session during a SessionGC or a
\* DestroyAllSessions that no other goroutine's command overlaps, the error is
\* written to the writer if there is one, the keys and sessions the backend does
\* not fail on are still removed, the caller sees no error, and a goroutine that
\* made the call stays in its loop.
C21_BestEffort ==
    /\ (last.op \in {"DestroyAllSessions", "KillSelectTimeout"} /\ last.alone
           /\ DestroyFails) =>
            /\ sink => ErrorWritten
            /\ provider = "redis" => DOMAIN rdb \subseteq broken
            /\ last.err = "ok"
            /\ last.op = "KillSelectTimeout" => loops[<<last.slot, "kill">>].pc # "done"
    /\ (last.op \in {"SessionGC", "GCSelectTimeout"} /\ last.alone /\ GCFails) =>
            /\ sink => ErrorWritten
            /\ provider = "redis" =>
                  \A key \in IdleKeys(last.db) :
                      Scan(last.db, ReplaceFirst(key)) \cap broken = {} =>
                          Scan(rdb, ReplaceFirst(key)) = {}
            /\ last.err = "ok"
            /\ last.op = "GCSelectTimeout" => loops[<<last.slot, "idle">>].pc # "done"

\* C22: every line written to the writer has a level at or below the level the
\* caller gave (ERROR < WARN < DEBUG), and nothing is written when the caller
\* gave no writer.
C22_LogFilter ==
    /\ \A i \in DOMAIN log : log[i].level <= logLev
    /\ ~sink => log = <<>>

----------------------------------------------------------------------------
\* the occurrence of the kill time a time t belongs to: the number of the day
\* that starts at the kill time
Occurrence(t) == (Unix(t) - killTime + SecondsPerDay) \div SecondsPerDay

\* C23: the wait the kill-time goroutine computes is (killTime - second of the
\* day) mod 86400, in 0..86399; with a wait of 0 DestroyAllSessions is called
\* before time passes; the wait computed after a call and its settle delay
\* ends in the kill second of the next day, and two calls of one goroutine never
\* belong to the same occurrence of the kill time.
C23_KillWait ==
    [][\A tok \in Tokens :
         LET l == <<tok, "kill">>
         IN /\ KillCompute(tok) =>
                 /\ loops'[l].wake - now =
                      Seconds((killTime - SecOfDay(now) + SecondsPerDay) % SecondsPerDay)
                 /\ loops'[l].wake - now \in 0..Seconds(SecondsPerDay - 1)
                 /\ loops[l].fired # NoTime =>
                      /\ SecOfDay(loops'[l].wake) = killTime
                      /\ Occurrence(loops'[l].wake) = Occurrence(loops[l].fired) + 1
            /\ (now' # now /\ l \in DOMAIN loops /\ tok \notin cancelled) =>
                 ~(loops[l].pc = "select" /\ loops[l].wake <= now)
            /\ KillSelectTimeout(tok) =>
                 /\ SecOfDay(now) = killTime
                 /\ loops[l].fired # NoTime => Occurrence(now) > Occurrence(loops[l].fired)]_vars

\* a goroutine started in the kill second has called DestroyAllSessions at once
\* and again a day later
C23_Witness ==
    \E l \in DOMAIN loops :
        /\ l[2] = "kill"
        /\ last.op = "KillSelectTimeout" /\ last.slot = l[1]
        /\ loops[l].fired = now
        /\ Unix(now) >= SecondsPerDay + killTime
        /\ \E t \in KillStarts : SecOfDay(t) = killTime /\ now = t + Seconds(SecondsPerDay)

----------------------------------------------------------------------------
\* C24: SetMaxIdleTime and SetMaxLifeTime set the provider's value and neither
\* start a goroutine nor change one; an idle/lifetime goroutine keeps for all
\* its life the interval it was started with and sets every timer by it; the
\* interval of the values now in force is that of a goroutine started by a
\* later StartGC.
C24_NoReload ==
    [][/\ \A n \in NewIdleTimes : SetMaxIdleTime(n) => maxIdleTime' = n /\ loops' = loops
       /\ \A n \in NewLifeTimes : SetMaxLifeTime(n) => maxLifeTime' = n /\ loops' = loops
       /\ \A l \in DOMAIN loops :
            /\ l \in DOMAIN loops' /\ loops'[l].sleep = loops[l].sleep
            /\ (l[2] = "idle" /\ last'.op = "GCSelectTimeout" /\ last'.slot = l[1]
                   /\ loops'[l] # loops[l]) =>
                  loops'[l].wake = now + Seconds(loops[l].sleep)
       /\ \A l \in DOMAIN loops' \ DOMAIN loops :
            l[2] = "idle" =>
                /\ last'.op = "StartGC" /\ last'.slot = l[1] /\ l[1] = gcCancel'
                /\ loops'[l].sleep = MinNonzero(maxIdleTime, maxLifeTime)]_vars

\* a goroutine has called SessionGC by the interval it was started with after
\* a setter changed the interval the values give
C24_Witness ==
    /\ last.op = "GCSelectTimeout"
    /\ ~last.ctxDone
    /\ loops[<<last.slot, "idle">>].sleep # MinNonzero(maxIdleTime, maxLifeTime)
    /\ loops[<<last.slot, "idle">>].wake = now + Seconds(loops[<<last.slot, "idle">>].sleep)

----------------------------------------------------------------------------
\* C25: a Delete of a key that was flushed leaves the handle marked as modified
\* until its next Flush, and after that Flush a handle opened by
\* SessionStart(id) gets "key not found" for the key, while the other stored
\* keys that the handle did not set keep their stored values.
C25_DeletePersisted ==
    /\ (last.op = "Delete" /\ last.pre.stored /\ last.pre.held /\ provider = "sqlite3") =>
          NeedsFlush(handles[last.slot])
    /\ (last.op = "Flush" /\ last.err = "ok") =>
          /\ \A k \in last.pre.removed, target \in Targets :
                ReadGet(last.sid, k, target).err = "key not found"
          /\ \A k \in DOMAIN last.pre.stored \
                       (last.pre.removed \cup DOMAIN last.staged \cup {TIME_ACCESSED}) :
                /\ k \in DOMAIN Stored(last.sid)
                /\ Stored(last.sid)[k] = last.pre.stored[k]

----------------------------------------------------------------------------
(* Goroutines sharing one sqlite3 handle.  A call is a sequence of commands, one
   per statement: the statements before st.mx.Lock() run unlocked, the statements
   between Lock and Unlock run while no other goroutine holds the mutex.  A map
   assignment or delete is in progress while its goroutine stands before its Store
   or Remove command; a read of the same map by another goroutine at that moment is a data
   race, and the Go runtime either lets it through or stops the process with
   "fatal error: concurrent map read and map write". *)

Quiescent == \A th \in Threads : threads[th].pc = "idle"

InitRace ==
    /\ \E p \in {"sqlite3"}, life \in {0}, idle \in {0}, kill \in {NoKill} :
          OneManager(p, life, idle, kill, PlainNamespace)
    /\ threads = NoCalls
    /\ sink = FALSE
    /\ logLev = LOG_LEVEL_ERROR
    /\ log = <<>>
    /\ broken = {}
    /\ provides = Imported
    /\ now = 0
    /\ rdb = EmptyMap
    /\ tbl = EmptyMap
    /\ handles = [s \in Slots \cup {Dropped} |-> NoHandle]
    /\ gcCancel = 0
    /\ cancelled = {}
    /\ loops = EmptyMap
    /\ gcPhase = "new"
    /\ hist = [s \in SessionIds |-> [t0 |-> NoTime, used |-> NoTime, acc |-> NoTime]]
    /\ last = Quiet
    /\ opsLeft = MaxRaceOps
    /\ ticksLeft = 0

NextRace ==
    \/ \E slot \in Slots, arg \in {<<>>} \cup GenIds : SessionStart(slot, arg)
    \/ \E slot \in Slots, key \in UserKeys \ {TIME_ACCESSED}, val \in Values :
         Set(slot, key, val)
    \/ \E slot \in Slots, key \in UserKeys \ {TIME_ACCESSED}, target \in Targets :
         Get(slot, key, target)
    \/ \E slot \in Slots, key \in UserKeys \ {TIME_ACCESSED} : Delete(slot, key)
    \/ \E slot \in Slots : Flush(slot)
    \/ \E th \in Threads : Resume(th)

SpecRace == InitRace /\ [][NextRace]_vars

\* C26: goroutines calling Set, Get, Delete and Flush on one handle never stop the
\* process on the handle's map, and once every call has returned and the handle is not
\* marked modified (a further Flush has nothing left to write) the stored map equals the
\* handle's in-memory map: a Set that raced with a Flush was written or is still dirty.
C26_SameHandle ==
    /\ ~Crashed
    /\ \A slot \in Slots :
         (Quiescent /\ handles[slot].open /\ ~NeedsFlush(handles[slot])
            /\ handles[slot].sid \in DOMAIN tbl) =>
               setFromDb(tbl[handles[slot].sid].val) = handles[slot].value

\* the part of C26 about a Set racing with a Flush, deletes apart: every key the handle
\* holds is stored with the same value, or the handle is still marked modified
RaceNoLostSet ==
    \A slot \in Slots :
       (Quiescent /\ handles[slot].open /\ ~NeedsFlush(handles[slot])
          /\ handles[slot].sid \in DOMAIN tbl) =>
             \A k \in DOMAIN handles[slot].value :
                /\ k \in DOMAIN setFromDb(tbl[handles[slot].sid].val)
                /\ setFromDb(tbl[handles[slot].sid].val)[k] = handles[slot].value[k]

----------------------------------------------------------------------------
(* Two handles of the application, possibly on one session id. *)

InitTwo ==
    /\ \E p \in {"redis", "sqlite3"}, life \in {0}, idle \in {0}, kill \in {NoKill} :
          OneManager(p, life, idle, kill, PlainNamespace)
    /\ threads = NoCalls
    /\ sink = FALSE
    /\ logLev = LOG_LEVEL_ERROR
    /\ log = <<>>
    /\ broken = {}
    /\ provides = Imported
    /\ now = 0
    /\ rdb = EmptyMap
    /\ tbl = EmptyMap
    /\ handles = [s \in TwoSlots \cup {Dropped} |-> NoHandle]
    /\ gcCancel = 0
    /\ cancelled = {}
    /\ loops = EmptyMap
    /\ gcPhase = "new"
    /\ hist = [s \in SessionIds |-> [t0 |-> NoTime, used |-> NoTime, acc |-> NoTime]]
    /\ last = Quiet
    /\ opsLeft = MaxTwoOps
    /\ ticksLeft = 0

NextTwo ==
    \/ \E slot \in TwoSlots, arg \in GenIds \cup {<<>>} : SessionStart(slot, arg)
    \/ \E slot \in TwoSlots, key \in UserKeys \ {TIME_ACCESSED}, val \in Values :
         Set(slot, key, val)
    \/ \E slot \in TwoSlots : Flush(slot)
    \/ \E slot \in TwoSlots, key \in UserKeys \ {TIME_ACCESSED}, target \in Targets :
         Get(slot, key, target)
    \/ \E slot \in TwoSlots, key \in UserKeys \ {TIME_ACCESSED}, val \in Values :
         Put(slot, key, val)
    \/ \E slot \in TwoSlots, key \in UserKeys \ {TIME_ACCESSED} : Delete(slot, key)
    \/ \E sid \in GenIds : SessionDestroy(sid)
    \/ \E th \in Threads : Resume(th)

SpecTwo == InitTwo /\ [][NextTwo]_vars

\* C27: two handles on one session id are independent staging areas: a Set on one
\* handle changes nothing another open handle on the same id returns from Get, and after
\* a successful Flush that writes, on a session that was not removed, a handle opened by
\* SessionRead returns for every key what the flushing handle holds.  Both are said
\* of a call that no other goroutine overlapped.
C27_Independent ==
    /\ (last.op = "Set" /\ last.alone) =>
          \A b \in DOMAIN last.pre.view :
             \A k \in UserKeys \ {TIME_ACCESSED}, target \in Targets :
                StoreGet(handles[b], k, target) = last.pre.view[b][k][target]
    /\ (last.op = "Flush" /\ last.alone /\ last.err = "ok" /\ last.calls # <<>>
           /\ last.pre.row) =>
          \A k \in UserKeys \ {TIME_ACCESSED}, target \in Targets :
             ReadGet(last.sid, k, target) = StoreGet(handles[last.slot], k, target)

----------------------------------------------------------------------------
(* Timestamps of a handle. *)

\* C28: timestamps. TimeCreated() of a handle is never the zero time; and on a
\* session that has stored state, TimeCreated() returns what the last TimeCreated()
\* on the session through the caller's handle returned, and TimeAccessed() a time
\* not earlier than the last TimeAccessed() returned, whatever calls (SessionStart
\* of the same id, Set, Put, Get, Delete, Flush) were made in between.
C28_Timestamps ==
    /\ last.op = "TimeCreated" => last.val.v # NoTime
    /\ (last.op = "TimeCreated" /\ last.pre.state) =>
          \A t \in last.pre.saw : last.val.v = t
    /\ (last.op = "TimeAccessed" /\ last.pre.state) =>
          \A t \in last.pre.saw : last.val.v >= t

----------------------------------------------------------------------------
(* Session ids longer than the backend's maximum. *)

\* Provider.GetSessionIDLen() of either provider
GetSessionIDLen == SESS_ID_LEN

\* an id of GetSessionIDLen() + 1 characters, as a caller can pass to SessionStart
LongId == [i \in 1..(GetSessionIDLen + 1) |-> "x"]
CallerIds == GenIds \cup {LongId}

InitIds ==
    /\ \E p \in {"redis", "sqlite3"}, life \in {0}, idle \in {0}, kill \in {NoKill} :
          OneManager(p, life, idle, kill, PlainNamespace)
    /\ threads = OneThread
    /\ sink = FALSE
    /\ logLev = LOG_LEVEL_ERROR
    /\ log = <<>>
    /\ broken = {}
    /\ provides = Imported
    /\ now = 0
    /\ rdb = EmptyMap
    /\ tbl = EmptyMap
    /\ handles = [s \in Slots \cup {Dropped} |-> NoHandle]
    /\ gcCancel = 0
    /\ cancelled = {}
    /\ loops = EmptyMap
    /\ gcPhase = "new"
    /\ hist = [s \in SessionIds \cup CallerIds |->
                 [t0 |-> NoTime, used |-> NoTime, acc |-> NoTime]]
    /\ last = Quiet
    /\ opsLeft = MaxIdOps
    /\ ticksLeft = 0

NextIds ==
    \/ \E slot \in Slots, arg \in CallerIds \cup {<<>>} : SessionStart(slot, arg)
    \/ \E slot \in Slots, key \in UserKeys, val \in Values : Set(slot, key, val)
    \/ \E slot \in Slots, key \in UserKeys, val \in Values : Put(slot, key, val)
    \/ \E slot \in Slots : Flush(slot)
    \/ \E slot \in Slots, key \in UserKeys, target \in Targets : Get(slot, key, target)
    \/ \E th \in Threads : Resume(th)

SpecIds == InitIds /\ [][NextIds]_vars

\* C29: bounded session ids. Every handle SessionStart has returned, through SessionInit
\* or through SessionRead, has an id of at most GetSessionIDLen() characters, and nothing
\* is stored under a longer id.
C29_BoundedIds ==
    /\ \A slot \in Slots : handles[slot].open => Len(handles[slot].sid) <= GetSessionIDLen
    /\ \A sid \in CallerIds : Len(sid) > GetSessionIDLen => ~HasState(sid)

----------------------------------------------------------------------------
(* The provider's policy while a Manager exists. *)

\* C30: one provider policy per Manager. Once NewManager has returned a Manager, a later
\* NewManager call, whether it returns a Manager or an error, leaves the provider's
\* maxLifeTime and maxIdleTime, the thresholds of the existing Manager, as they were.
C30_OnePolicy ==
    [][(managers # <<>> /\ last'.op = "NewManager" /\ opsLeft' # opsLeft) =>
          /\ maxLifeTime' = maxLifeTime
          /\ maxIdleTime' = maxIdleTime]_vars

----------------------------------------------------------------------------
(* Expiry of a session whose keys were written at different times. *)

\* two keys of the application
ExpKeys == {<<"k">>, <<"j">>}

\* the keys of a session a handle opened now could read
ReadableKeys(sid) == {k \in ExpKeys : ~Unreadable(sid, k)}

InitExp ==
    /\ \E p \in {"redis", "sqlite3"}, life \in LifeTimes, idle \in IdleTimes, kill \in {NoKill} :
          OneManager(p, life, idle, kill, PlainNamespace)
    /\ threads = OneThread
    /\ sink = FALSE
    /\ logLev = LOG_LEVEL_ERROR
    /\ log = <<>>
    /\ broken = {}
    /\ provides = Imported
    /\ now = 0
    /\ rdb = EmptyMap
    /\ tbl = EmptyMap
    /\ handles = [s \in Slots \cup {Dropped} |-> NoHandle]
    /\ gcCancel = 0
    /\ cancelled = {}
    /\ loops = EmptyMap
    /\ gcPhase = "new"
    /\ hist = [s \in SessionIds |-> [t0 |-> NoTime, used |-> NoTime, acc |-> NoTime]]
    /\ last = Quiet
    /\ opsLeft = MaxExpOps
    /\ ticksLeft = MaxExpTicks

NextExp ==
    \/ \E slot \in Slots, arg \in GenIds \cup {<<>>} : SessionStart(slot, arg)
    \/ \E slot \in Slots, key \in ExpKeys : Put(slot, key, GCValue)
    \/ SessionGC
    \/ \E th \in Threads : Resume(th)
    \/ \E d \in 1..TicksPerSec : Tick(d)

SpecExp == InitExp /\ [][NextExp]_vars

\* C31: a session expires as a unit. No step of the clock (native TTL) and no SessionGC
\* (idle and lifetime sweep) leaves a session with some of its keys still readable and
\* others gone: of the keys readable before the step of the clock, and of the keys
\* stored when the SessionGC began, either all are readable afterwards or none is.
C31_ExpiresAsUnit ==
    /\ [](last.op = "SessionGC" =>
            \A sid \in GenIds :
               \/ DOMAIN last.pre[sid] \cap ExpKeys \subseteq ReadableKeys(sid)
               \/ ReadableKeys(sid) = {})
    /\ [][ticksLeft' # ticksLeft =>
            \A sid \in GenIds :
               \A before \in {ReadableKeys(sid)} :
                  \/ before \subseteq ReadableKeys(sid)'
                  \/ ReadableKeys(sid)' = {}]_vars

----------------------------------------------------------------------------
(* Handles that outlive their session. *)

\* C32: no resurrection through stale handles. When a session id has just been removed
\* by SessionDestroy, SessionGC or DestroyAllSessions, a Set, Put, Get, Delete or Flush
\* on a handle obtained before the removal leaves, when it has returned, the backend
\* without stored state for the id.
C32_NoResurrection ==
    (last.op \in {"Set", "Put", "Get", "Delete", "Flush"} /\ last.pre.justRemoved) =>
        ~HasState(last.sid)

----------------------------------------------------------------------------
(* What SessionDestroy leaves alone. *)

\* C33: SessionDestroy frame. Right after SessionDestroy(id) returned, every other
\* session id has the stored keys and values it had before the call.
C33_DestroyFrame ==
    last.op = "SessionDestroy" =>
        \A other \in SessionIds \ {last.sid} : Stored(other) = last.pre[other]

----------------------------------------------------------------------------
(* Two handles on one session id, each writing a key of its own. *)

\* the key the application sets through the handle in slot; it sets no other there
OwnKey(slot) == IF slot = 1 THEN <<"k">> ELSE <<"j">>

InitShare ==
    /\ \E p \in {"redis", "sqlite3"}, life \in {0}, idle \in {0}, kill \in {NoKill} :
          OneManager(p, life, idle, kill, PlainNamespace)
    /\ threads = OneThread
    /\ sink = FALSE
    /\ logLev = LOG_LEVEL_ERROR
    /\ log = <<>>
    /\ broken = {}
    /\ provides = Imported
    /\ now = 0
    /\ rdb = EmptyMap
    /\ tbl = EmptyMap
    /\ handles = [s \in TwoSlots \cup {Dropped} |-> NoHandle]
    /\ gcCancel = 0
    /\ cancelled = {}
    /\ loops = EmptyMap
    /\ gcPhase = "new"
    /\ hist = [s \in SessionIds |-> [t0 |-> NoTime, used |-> NoTime, acc |-> NoTime]]
    /\ last = Quiet
    /\ opsLeft = MaxShareOps
    /\ ticksLeft = 0

NextShare ==
    \/ \E slot \in TwoSlots, arg \in GenIds \cup {<<>>} : SessionStart(slot, arg)
    \/ \E slot \in TwoSlots, val \in Values : Set(slot, OwnKey(slot), val)
    \/ \E slot \in TwoSlots : Flush(slot)
    \/ \E th \in Threads : Resume(th)

SpecShare == InitShare /\ [][NextShare]_vars

\* C34: no cross-handle lost update. While handles A and B are open on one session id,
\* a successful Flush of B, which no other goroutine overlapped, leaves every key B never
\* set or deleted, and that a handle opened by SessionRead could read before the Flush,
\* readable with the same value.
C34_NoLostUpdate ==
    (last.op = "Flush" /\ last.err = "ok" /\ last.alone /\ last.pre.peers # {}) =>
        \A k \in ExpKeys \ {OwnKey(last.slot)}, target \in Targets :
            last.pre.reads[k][target].err = "ok" =>
                ReadGet(last.sid, k, target) = last.pre.reads[k][target]

----------------------------------------------------------------------------
(* The namespace of the redis provider: any string the application gives to
   InitProvider, put as it is into the key names and into the SCAN MATCH patterns. *)

InitSpace ==
    /\ \E p \in {"redis", "sqlite3"}, life \in {0}, idle \in {0}, kill \in {NoKill},
          namespace \in Namespaces :
          OneManager(p, life, idle, kill, namespace)
    /\ threads = OneThread
    /\ sink = FALSE
    /\ logLev = LOG_LEVEL_ERROR
    /\ log = <<>>
    /\ broken = {}
    /\ provides = Imported
    /\ now = 0
    /\ rdb = EmptyMap
    /\ tbl = EmptyMap
    /\ handles = [s \in Slots \cup {Dropped} |-> NoHandle]
    /\ gcCancel = 0
    /\ cancelled = {}
    /\ loops = EmptyMap
    /\ gcPhase = "new"
    /\ hist = [s \in SessionIds |-> [t0 |-> NoTime, used |-> NoTime, acc |-> NoTime]]
    /\ last = Quiet
    /\ opsLeft = MaxSpaceOps
    /\ ticksLeft = 0

NextSpace ==
    \/ \E slot \in Slots, arg \in SessionIds \cup {<<>>} : SessionStart(slot, arg)
    \/ \E slot \in Slots, key \in UserKeys, val \in Values : Put(slot, key, val)
    \/ \E slot \in Slots, key \in UserKeys, target \in Targets : Get(slot, key, target)
    \/ \E sid \in SessionIds : SessionDestroy(sid)
    \/ DestroyAllSessions
    \/ \E th \in Threads : Resume(th)

SpecSpace == InitSpace /\ [][NextSpace]_vars

====
